---- MODULE Spec2Model ----
(***************************************************************************)
(* A model of the scripts of arkhe-claude-plugins.                         *)
(*                                                                         *)
(* Part 1 (SpecExtract): the resumable lecture loop of extract-udemy,      *)
(*   extract.py main() with the progress tracking of CourseFileWriter.     *)
(* Part 2 (SpecRequest, SpecParallel): UdemyAPIClient._make_request with   *)
(*   its rate limiter, called from one thread or from the worker threads   *)
(*   of ParallelTranscriptDownloader.                                      *)
(***************************************************************************)
EXTENDS Integers, Sequences, FiniteSets, TLC

(***************************************************************************)
(* Bounds of the model.                                                    *)
(***************************************************************************)
\* number of lectures of the course that is extracted
MaxLectures == 2
\* number of extraction runs made on one output directory
MaxRuns == 2

\* the largest --max-retries tried
MaxRetries == 3
\* _make_request calls made on one client by the single-threaded caller
MaxRequests == 2
\* how far (in quarter seconds) past the rate limiter's interval the time
\* since a request is followed
MaxSlack == 1
\* lectures handed to download_batch
MaxBatch == 2
\* the largest max_retries of the client shared by the workers
MaxWorkerRetries == 2
\* the longest lecture title, in words
MaxTitleWords == 2
\* the longest topic given to normalize_slug, in characters
MaxTopicLen == 5
\* how long the research cache is followed, in half days
MaxClock == 3
\* the largest RESEARCH_TTL_DAYS
MaxTtlDays == 1

(***************************************************************************)
(* Program constants. Times are in quarter seconds.                        *)
(***************************************************************************)
\* self.min_request_interval = 0.5
min_request_interval == 2
\* base_delay = 2
base_delay == 8
\* ParallelTranscriptDownloader(rate_limit=0.5)
rate_limit == 2
\* ParallelTranscriptDownloader(max_workers=2)
max_workers == 2

(***************************************************************************)
(* Helpers.                                                                *)
(***************************************************************************)
Range(s) == {s[k] : k \in DOMAIN s}

\* list(a_set): some enumeration of the set, each element once
RECURSIVE SetToSeq(_)
SetToSeq(S) ==
    IF S = {} THEN <<>>
    ELSE LET e == CHOOSE e \in S : TRUE IN <<e>> \o SetToSeq(S \ {e})

VARIABLES
    \* ---- extract.py main() and CourseFileWriter ----
    course,             \* the flattened lectures of course_data['sections']
    args,               \* the command line of the current run
    progress_file,      \* .extraction_progress.json on disk
    content_files,      \* the transcript/article/quiz/resource files on disk
    completed_lectures, \* CourseFileWriter.completed_lectures (in memory)
    lecture_idx,        \* position of the for loops in the flattened lectures
    lecture_number,     \* main()'s lecture_number
    extracted_items,    \* main()'s extracted_items of the lecture in progress
    main_pc,            \* where main() is
    report,             \* the per-lecture lines main() printed in this run
    runs,               \* runs started so far on this output directory
    run_start,          \* what this run found: how the previous run ended,
                        \* the ids the progress file held, whether it was cleared
    last_save,          \* outcome of the last _save_progress of this run
    processed_ever      \* the lecture positions processed by the runs so far

extract_vars == <<course, args, progress_file, content_files, completed_lectures,
                  lecture_idx, lecture_number, extracted_items, main_pc, report,
                  runs, run_start, last_save, processed_ever>>

VARIABLES
    \* ---- UdemyAPIClient and the threads that call it ----
    max_retries,        \* UdemyAPIClient.max_retries
    elapsed,            \* time.time() - UdemyAPIClient.last_request_time, as
                        \* _rate_limit would compute it now (up to MaxElapsed)
    retry_stats,        \* UdemyAPIClient._retry_stats
    pc,                 \* per thread: where it is
    attempt,            \* per thread: _make_request's loop variable
    sleep_left,         \* per thread: what is left of its time.sleep
    result,             \* per thread: what its _make_request returned
    calls,              \* per thread: _make_request calls it has made
    outcomes,           \* per thread: how the attempts of its request ended
    sleeps,             \* per thread: the backoff delays of its request
    since_attempt,      \* time since the last HTTP attempt was sent (up to
                        \* MaxElapsed; -1: none sent yet)
    attempt_gap,        \* time between the last two HTTP attempts (up to
                        \* MaxElapsed; -1: fewer than two sent)
    \* ---- ParallelTranscriptDownloader ----
    lock,               \* self.lock: 0 when free, else the thread holding it
    dl_elapsed,         \* time.time() - ParallelTranscriptDownloader
                        \* .last_request_time (up to MaxElapsed)
    tasks               \* submitted downloads no worker has taken yet

client_vars == <<max_retries, elapsed, retry_stats, pc, attempt, sleep_left,
                 result, calls, outcomes, sleeps, since_attempt, attempt_gap>>

downloader_vars == <<lock, dl_elapsed, tasks>>

request_vars == <<client_vars, downloader_vars>>

VARIABLES
    \* ---- UdemyAPIClient.detect_content_type ----
    lecture_data,       \* the lecture dict from the API
    detected_type       \* what detect_content_type returned ("pending": not
                        \* called yet)

detect_vars == <<lecture_data, detected_type>>

VARIABLES
    \* ---- deep-research: cache_manager.py ----
    cache_dirs,         \* the directories under the cache dir, as paths
    cache_files,        \* the files under the cache dir: path -> what was written
    index_json,         \* index.json: absent, or the mapping it holds
    cache_now,          \* the time (UTC), in half days
    utc_offset,         \* local time minus UTC, in half days
    ttl_days,           \* RESEARCH_TTL_DAYS, or the default
    cache_result,       \* the last command and what it returned
    cached              \* what the commands so far should have left: slug ->
                        \* entry of the most recent put not followed by a delete

cache_vars == <<cache_dirs, cache_files, index_json, cache_now, utc_offset,
                ttl_days, cache_result, cached>>

VARIABLES
    \* ---- deep-research: normalize_slug ----
    topic,              \* the string given to normalize_slug
    slug_once,          \* normalize_slug(topic)
    slug_twice,         \* normalize_slug(normalize_slug(topic))
    slug_calls          \* how many of the two calls were made

slug_vars == <<topic, slug_once, slug_twice, slug_calls>>

VARIABLES
    \* ---- managing-adrs: adr_create.py ----
    adr_dir,            \* the names of the files in the ADR directory
    adr_last,           \* the last create_adr call: what it saw and wrote
    adr_numbers,        \* the number of each ADR-named file of the directory,
                        \* known from how the file came to be
    fn_args,            \* the arguments of a generate_filename call
    fn_detected         \* what detect_numbering_style and get_next_adr_number
                        \* return for the directory holding the generated file

adr_vars == <<adr_dir, adr_last, adr_numbers, fn_args, fn_detected>>

VARIABLES
    \* ---- create-tutorial: validate_tutorial.py ----
    argc,               \* len(sys.argv)
    vt_pc,              \* where main() is
    all_errors,         \* main()'s all_errors
    all_warnings,       \* main()'s all_warnings
    exit_code,          \* the exit status of the process, -1 while it runs
    found               \* whether a validator has appended an error, a warning

validate_vars == <<argc, vt_pc, all_errors, all_warnings, exit_code, found>>

VARIABLES
    \* ---- deep-research: promote.py ----
    pr_entry,           \* the cache entry of the slug: metadata and content
    pr_file,            \* docs/research/<slug>.md
    pr_readme,          \* the rows of the index table of README.md
    pr_notes,           \* the team notes section of the promoted file, as
                        \* the file was put together
    pr_last             \* the last promote() call: arguments, result, and
                        \* the file and cache content it found

promote_vars == <<pr_entry, pr_file, pr_readme, pr_notes, pr_last>>

VARIABLES
    \* ---- extract-youtube: youtube_client.py ----
    yt_url,             \* the argument of parse_url
    yt_result           \* what parse_url returns or raises

youtube_vars == <<yt_url, yt_result>>

VARIABLES
    \* ---- spring-boot-scanner: detect_patterns.py ----
    files_scanned,          \* the files scan_directory's loop has scanned
    files_with_patterns,    \* results["files_with_patterns"], by its length
    files_by_skill,         \* files_by_skill: skill -> its list, by its length
    all_escalations,        \* the patterns of all_escalations
    routing                 \* results["routing_recommendation"]

scanner_vars ==
    <<files_scanned, files_with_patterns, files_by_skill, all_escalations,
      routing>>

VARIABLES
    \* ---- managing-adrs: adr_supersede.py ----
    sup_files,          \* the .md files of the ADR directory: name -> lines
    sup_before,         \* what each file held when it was first read
    sup_args,           \* --old and --new
    sup_old_adr,        \* old_adr (NoPath: None)
    sup_new_adr,        \* new_adr (NoPath: None)
    sup_pc,             \* where supersede_adr is
    sup_result,         \* what supersede_adr returned ("none": not yet)
    sup_written         \* the write_text calls so far, in order

supersede_vars == <<sup_files, sup_before, sup_args, sup_old_adr, sup_new_adr,
                    sup_pc, sup_result, sup_written>>

\* the state of the scripts other than extract-udemy's loop and client
tool_vars == <<detect_vars, cache_vars, slug_vars, adr_vars, validate_vars, promote_vars, youtube_vars, scanner_vars, supersede_vars>>

vars == <<extract_vars, request_vars, tool_vars>>

(***************************************************************************)
(* The course: lectures in course order. id 0 stands for a lecture without *)
(* an id (lecture.get('id') falsy); the ids of a course are distinct.      *)
(***************************************************************************)
LectureIdAt(k) == 100 + k

\* the lecture at position k: without an id, or a video or a promotional
\* article with its id
LecturesAt(k) ==
    {[id |-> 0, content_type |-> "video"],
     [id |-> LectureIdAt(k), content_type |-> "video"],
     [id |-> LectureIdAt(k), content_type |-> "promotional"]}

Courses ==
    {c \in [1..MaxLectures -> UNION {LecturesAt(k) : k \in 1..MaxLectures}] :
        \A k \in 1..MaxLectures : c[k] \in LecturesAt(k)}

AllContentTypes == {"video", "article", "quiz", "resource"}

\* --content-types: 'all' (the default)
ContentTypeArgs == {AllContentTypes}

Arguments == [no_resume : BOOLEAN, skip_promotional : BOOLEAN,
              content_types : ContentTypeArgs]

(***************************************************************************)
(* The progress file: absent, a JSON document holding the list             *)
(* completed_lectures, or a torn (truncated, unparseable) document.        *)
(***************************************************************************)
AbsentFile == [state |-> "absent", completed_lectures |-> <<>>]
TornFile   == [state |-> "torn",   completed_lectures |-> <<>>]
JsonFile(list) == [state |-> "json", completed_lectures |-> list]

\* the ids a progress file on disk holds
PersistedIds(file) ==
    IF file.state = "json"
    THEN {file.completed_lectures[k] : k \in 1..Len(file.completed_lectures)}
    ELSE {}

\* a bug: the list is read under another key, so nothing is ever loaded
_load_progress_wrong_key(file) == {}

\* CourseFileWriter._load_progress
_load_progress(file) ==
    IF file.state = "json" THEN Range(file.completed_lectures) ELSE {}

\* a bug: an existing progress file is kept instead of being overwritten
_save_progress_keep_existing(completed, file, write_ok) ==
    IF write_ok /\ file.state # "json" THEN JsonFile(SetToSeq(completed)) ELSE file

\* CourseFileWriter._save_progress: the whole set is dumped; when the file
\* cannot be opened the exception is caught and reported, and the file stays
_save_progress(completed, file, write_ok) ==
    IF write_ok THEN JsonFile(SetToSeq(completed)) ELSE file

\* a bug: the id is looked up without str(), and an int equals no stored string
is_lecture_complete_no_str(lecture_id, completed) == FALSE

\* CourseFileWriter.is_lecture_complete
is_lecture_complete(lecture_id, completed) == ToString(lecture_id) \in completed

\* CourseFileWriter.mark_lecture_complete: the set after the add
mark_lecture_complete(lecture_id, completed) == completed \cup {ToString(lecture_id)}

\* a bug: the file is emptied instead of deleted
clear_progress_truncates(file, unlink_ok) ==
    IF file.state # "absent" THEN TornFile ELSE file

\* CourseFileWriter.clear_progress: unlink, whose failure is caught and reported
clear_progress(file, unlink_ok) ==
    IF file.state # "absent" /\ unlink_ok THEN AbsentFile ELSE file

\* the extractors main() runs for a lecture of this content type
Applicable(content_type, content_types) ==
    (IF content_type = "video" /\ "video" \in content_types
        THEN {"transcript"} ELSE {})
    \cup
    (IF content_type \in {"article", "coding_solution", "technical_resource",
                          "promotional"} /\ "article" \in content_types
        THEN {"article"} ELSE {})
    \cup
    (IF content_type = "quiz" /\ "quiz" \in content_types THEN {"quiz"} ELSE {})
    \cup
    (IF "resource" \in content_types THEN {"resource"} ELSE {})

Lecture == course[lecture_idx]
InLoop == main_pc = "loop" /\ lecture_idx <= Len(course)

DefaultArguments == [no_resume |-> FALSE, skip_promotional |-> FALSE,
                     content_types |-> AllContentTypes]

NoRunStart == [previous |-> "idle", persisted |-> {}, had_file |-> FALSE,
               cleared |-> FALSE]

\* time differences are followed up to this value: to the rate limiters every
\* longer time is like it
MaxElapsed == min_request_interval + MaxSlack

\* the API client after __init__ (last_request_time = 0, far in the past),
\* with the threads in T
ClientIdle(T) ==
    /\ elapsed = MaxElapsed
    /\ retry_stats = [total_retries |-> 0, successful_retries |-> 0,
                      failed_retries |-> 0, timeout_count |-> 0]
    /\ pc = [t \in T |-> "idle"]
    /\ attempt = [t \in T |-> 0]
    /\ sleep_left = [t \in T |-> 0]
    /\ result = [t \in T |-> "pending"]
    /\ calls = [t \in T |-> 0]
    /\ outcomes = [t \in T |-> <<>>]
    /\ sleeps = [t \in T |-> <<>>]
    /\ since_attempt = -1
    /\ attempt_gap = -1

\* no parallel downloader
DownloaderIdle ==
    /\ lock = 0
    /\ dl_elapsed = MaxElapsed
    /\ tasks = 0

\* no request is being made: a client with the default max_retries and no
\* thread using it
RequestIdle ==
    /\ max_retries = 3
    /\ ClientIdle({})
    /\ DownloaderIdle

\* detect_content_type is not being called
DetectIdle ==
    /\ lecture_data = <<>>
    /\ detected_type = "pending"

\* the slugs the cache commands are given: normalize_slug's values
Slugs == {"", "ddd"}

NoTimestamp == [kind |-> "empty", wall |-> 0, tz |-> ""]

NoEntry == [found |-> FALSE, content |-> "", title |-> "",
            researched_at |-> NoTimestamp, expires_at |-> NoTimestamp]

NoResult == [cmd |-> "none", slug |-> "", ok |-> FALSE, raised |-> FALSE,
             existed |-> FALSE, entry |-> NoEntry, stamp |-> NoTimestamp]

\* no cache directory yet, no command run
CacheIdle ==
    /\ cache_dirs = {}
    /\ cache_files = <<>>
    /\ index_json = [exists |-> FALSE, data |-> <<>>]
    /\ cache_now = 0
    /\ utc_offset = 0
    /\ ttl_days = 1
    /\ cache_result = NoResult
    /\ cached = [s \in Slugs |-> NoEntry]

\* normalize_slug is not being called
SlugIdle ==
    /\ topic = <<>>
    /\ slug_once = <<>>
    /\ slug_twice = <<>>
    /\ slug_calls = 0

NoCreate == [done |-> FALSE, number |-> 0, filename |-> <<>>, before |-> {},
             largest |-> 0]
NoFilenameArgs == [number |-> 0, title |-> <<>>, padding |-> 0,
                   with_prefix |-> FALSE]
NotDetected == [done |-> FALSE, padding |-> 0, has_prefix |-> FALSE, next |-> 0]

\* adr_create.py is not running
AdrIdle ==
    /\ adr_dir = {}
    /\ adr_last = NoCreate
    /\ adr_numbers = <<>>
    /\ fn_args = NoFilenameArgs
    /\ fn_detected = NotDetected

\* validate_tutorial.py is not running
ValidateIdle ==
    /\ argc = 0
    /\ vt_pc = "idle"
    /\ all_errors = <<>>
    /\ all_warnings = <<>>
    /\ exit_code = -1
    /\ found = [errors |-> FALSE, warnings |-> FALSE]

NoFile == [exists |-> FALSE, text |-> <<>>]
NoPromote == [done |-> FALSE, refresh |-> FALSE, success |-> FALSE,
              before |-> NoFile, content |-> <<>>, calls |-> 0]

\* promote.py is not running
PromoteIdle ==
    /\ pr_entry = [exists |-> FALSE, title |-> "", content |-> <<>>]
    /\ pr_file = NoFile
    /\ pr_readme = <<>>
    /\ pr_notes = <<>>
    /\ pr_last = NoPromote

NoSegment == [text |-> "", len |-> 0, valid |-> 0]
NoUrl == [netloc |-> "", path |-> <<>>, v |-> NoSegment, list |-> NoSegment]
NotParsed == [outcome |-> "none", type |-> "None", video_id |-> NoSegment,
              playlist_id |-> NoSegment]

\* youtube_client.py is not running
YoutubeIdle ==
    /\ yt_url = NoUrl
    /\ yt_result = NotParsed

NoRouting == [done |-> FALSE, auto_invoke |-> {}, require_confirmation |-> {},
              warnings |-> {}, delegate_to_agent |-> FALSE,
              recommended_action |-> ""]

\* detect_patterns.py is not running
ScannerIdle ==
    /\ files_scanned = 0
    /\ files_with_patterns = 0
    /\ files_by_skill = <<>>
    /\ all_escalations = {}
    /\ routing = NoRouting

\* adr_supersede.py has not been started
SupersedeIdle ==
    /\ sup_files = <<>>
    /\ sup_before = <<>>
    /\ sup_args = [old |-> 0, new |-> 0]
    /\ sup_old_adr = <<>>
    /\ sup_new_adr = <<>>
    /\ sup_pc = "idle"
    /\ sup_result = "none"
    /\ sup_written = <<>>

\* the other scripts are not running, but for the one named
ToolsIdleBut(part) ==
    /\ IF part = "detect" THEN TRUE ELSE DetectIdle
    /\ IF part = "cache" THEN TRUE ELSE CacheIdle
    /\ IF part = "slug" THEN TRUE ELSE SlugIdle
    /\ IF part = "adr" THEN TRUE ELSE AdrIdle
    /\ IF part = "validate" THEN TRUE ELSE ValidateIdle
    /\ IF part = "promote" THEN TRUE ELSE PromoteIdle
    /\ IF part = "youtube" THEN TRUE ELSE YoutubeIdle
    /\ IF part = "scanner" THEN TRUE ELSE ScannerIdle
    /\ IF part = "supersede" THEN TRUE ELSE SupersedeIdle

ToolsIdle == ToolsIdleBut("none")

InitExtract ==
    /\ max_retries = 3
    /\ ClientIdle({})
    /\ DownloaderIdle
    /\ ToolsIdle
    /\ course \in Courses
    /\ args = DefaultArguments
    /\ progress_file = AbsentFile
    /\ content_files = {}
    /\ completed_lectures = {}
    /\ lecture_idx = 1
    /\ lecture_number = 1
    /\ extracted_items = {}
    /\ main_pc = "idle"
    /\ report = <<>>
    /\ runs = 0
    /\ run_start = NoRunStart
    /\ last_save = "none"
    /\ processed_ever = {}

\* main() up to the lecture loop: the file writer is constructed (and loads
\* the progress), and --no-resume clears the progress file
StartRun ==
    /\ main_pc \in {"idle", "stopped", "done"}
    /\ runs < MaxRuns
    /\ \E a \in Arguments, unlink_ok \in BOOLEAN :
        /\ args' = a
        /\ completed_lectures' = _load_progress(progress_file)
        /\ progress_file' =
              IF a.no_resume /\ progress_file.state # "absent"
              THEN clear_progress(progress_file, unlink_ok)
              ELSE progress_file
        /\ run_start' = [previous |-> main_pc,
                         persisted |-> PersistedIds(progress_file),
                         had_file |-> progress_file.state # "absent",
                         cleared |-> /\ progress_file.state # "absent"
                                     /\ progress_file'.state = "absent"]
    /\ runs' = runs + 1
    /\ lecture_idx' = 1
    /\ lecture_number' = 1
    /\ extracted_items' = {}
    /\ report' = <<>>
    /\ last_save' = "none"
    /\ main_pc' = "loop"
    /\ UNCHANGED <<course, content_files, processed_ever>>
    /\ UNCHANGED <<request_vars, tool_vars>>

\* a bug: a skipped lecture does not take a number
SkipLecture_keeps_number(tag) ==
    /\ report' = Append(report, [tag |-> tag, items |-> {}])
    /\ lecture_idx' = lecture_idx + 1
    /\ UNCHANGED <<course, args, progress_file, content_files, completed_lectures,
                   lecture_number, extracted_items, main_pc, runs, run_start,
                   last_save, processed_ever>>
    /\ UNCHANGED <<request_vars, tool_vars>>

SkipLecture(tag) ==
    /\ report' = Append(report, [tag |-> tag, items |-> {}])
    /\ lecture_number' = lecture_number + 1
    /\ lecture_idx' = lecture_idx + 1
    /\ UNCHANGED <<course, args, progress_file, content_files, completed_lectures,
                   extracted_items, main_pc, runs, run_start, last_save, processed_ever>>
    /\ UNCHANGED <<request_vars, tool_vars>>

\* if not lecture_id: ... continue
SkipNoId ==
    /\ InLoop
    /\ Lecture.id = 0
    /\ SkipLecture("no_id")

\* if file_writer.is_lecture_complete(lecture_id): ... continue
SkipCompleted ==
    /\ InLoop
    /\ Lecture.id # 0
    /\ is_lecture_complete(Lecture.id, completed_lectures)
    /\ SkipLecture("already")

\* if config['skip_promotional'] and content_type == 'promotional': ... continue
SkipPromotional ==
    /\ InLoop
    /\ Lecture.id # 0
    /\ ~is_lecture_complete(Lecture.id, completed_lectures)
    /\ args.skip_promotional /\ Lecture.content_type = "promotional"
    /\ SkipLecture("promotional")

\* a bug: the lecture is marked complete when its processing begins
BeginLecture_marks_first ==
    /\ InLoop
    /\ Lecture.id # 0
    /\ ~is_lecture_complete(Lecture.id, completed_lectures)
    /\ ~(args.skip_promotional /\ Lecture.content_type = "promotional")
    /\ extracted_items' = {}
    /\ main_pc' = "extract"
    /\ processed_ever' = processed_ever \cup {lecture_idx}
    /\ completed_lectures' = mark_lecture_complete(Lecture.id, completed_lectures)
    /\ progress_file' = _save_progress(completed_lectures', progress_file, TRUE)
    /\ UNCHANGED <<course, args, content_files, lecture_idx, lecture_number,
                   report, runs, run_start, last_save>>
    /\ UNCHANGED <<request_vars, tool_vars>>

\* extracted_items = []: the lecture is processed
BeginLecture ==
    /\ InLoop
    /\ Lecture.id # 0
    /\ ~is_lecture_complete(Lecture.id, completed_lectures)
    /\ ~(args.skip_promotional /\ Lecture.content_type = "promotional")
    /\ extracted_items' = {}
    /\ main_pc' = "extract"
    /\ processed_ever' = processed_ever \cup {lecture_idx}
    /\ UNCHANGED <<course, args, progress_file, content_files, completed_lectures,
                   lecture_idx, lecture_number, report, runs, run_start, last_save>>
    /\ UNCHANGED <<request_vars, tool_vars>>

\* the extractors of the lecture: each applicable one returns content (which
\* is written to a file named after lecture_number) or nothing
Extract ==
    /\ main_pc = "extract"
    /\ \E ok \in SUBSET Applicable(Lecture.content_type, args.content_types) :
        /\ content_files' = content_files \cup {<<lecture_number, e>> : e \in ok}
        /\ extracted_items' = ok
        /\ report' = Append(report,
              [tag |-> IF ok = {} THEN "no_content" ELSE "extracted", items |-> ok])
    /\ main_pc' = "mark"
    /\ UNCHANGED <<course, args, progress_file, completed_lectures, lecture_idx,
                   lecture_number, runs, run_start, last_save, processed_ever>>
    /\ UNCHANGED <<request_vars, tool_vars>>

\* file_writer.mark_lecture_complete(lecture_id); lecture_number += 1; sleep
MarkComplete ==
    /\ main_pc = "mark"
    /\ \E write_ok \in BOOLEAN :
        /\ completed_lectures' = mark_lecture_complete(Lecture.id, completed_lectures)
        /\ progress_file' = _save_progress(completed_lectures', progress_file, write_ok)
        /\ last_save' = IF write_ok THEN "ok" ELSE "failed"
    /\ lecture_number' = lecture_number + 1
    /\ lecture_idx' = lecture_idx + 1
    /\ main_pc' = "loop"
    /\ UNCHANGED <<course, args, content_files, extracted_items, report, runs,
                   run_start, processed_ever>>
    /\ UNCHANGED <<request_vars, tool_vars>>

\* the loops are exhausted: the summary steps follow
EndLoop ==
    /\ main_pc = "loop"
    /\ lecture_idx > Len(course)
    /\ main_pc' = "summary"
    /\ UNCHANGED <<course, args, progress_file, content_files, completed_lectures,
                   lecture_idx, lecture_number, extracted_items, report, runs,
                   run_start, last_save, processed_ever>>
    /\ UNCHANGED <<request_vars, tool_vars>>

\* the process ends: what main() held in memory is gone, the disk stays
ProcessExit ==
    /\ args' = DefaultArguments
    /\ completed_lectures' = {}
    /\ lecture_idx' = 1
    /\ lecture_number' = 1
    /\ extracted_items' = {}
    /\ report' = <<>>
    /\ run_start' = NoRunStart
    /\ last_save' = "none"
    /\ UNCHANGED <<course, content_files, runs, processed_ever>>
    /\ UNCHANGED <<request_vars, tool_vars>>

\* if file_writer.progress_file.exists(): file_writer.clear_progress()
\* and the closing prints: the run ends normally
Finish ==
    /\ main_pc = "summary"
    /\ \E unlink_ok \in BOOLEAN :
        progress_file' = clear_progress(progress_file, unlink_ok)
    /\ main_pc' = "done"
    /\ ProcessExit

\* KeyboardInterrupt, or an exception that reaches main()'s handlers:
\* sys.exit(1)
Interrupt ==
    /\ main_pc \in {"loop", "extract", "mark", "summary"}
    /\ main_pc' = "stopped"
    /\ UNCHANGED progress_file
    /\ ProcessExit

\* the interrupt arrives inside _save_progress, after open(..., 'w') has
\* truncated the file and before the document is complete
InterruptDuringSave ==
    /\ main_pc = "mark"
    /\ progress_file' = TornFile
    /\ main_pc' = "stopped"
    /\ ProcessExit

NextExtract ==
    \/ StartRun
    \/ SkipNoId
    \/ SkipCompleted
    \/ SkipPromotional
    \/ BeginLecture
    \/ Extract
    \/ MarkComplete
    \/ EndLoop
    \/ Finish
    \/ Interrupt
    \/ InterruptDuringSave

SpecExtract == InitExtract /\ [][NextExtract]_vars

(***************************************************************************)
(* Claims about the lecture loop.                                          *)
(***************************************************************************)
Running == main_pc \in {"loop", "extract", "mark", "summary"}

ReportedAs(tags) == {k \in DOMAIN report : report[k].tag \in tags}

\* C1: a lecture whose id (as a string) is in the completed set when the loop
\* reaches it is skipped: the iteration calls no extractor, writes no content
\* file and leaves the completed set and the progress file as they are.
C1_CompletedLectureIsSkipped ==
    [][(/\ InLoop
        /\ Lecture.id # 0
        /\ ToString(Lecture.id) \in completed_lectures
        /\ main_pc' # "stopped")
       => (/\ main_pc' = "loop"
           /\ lecture_idx' = lecture_idx + 1
           /\ report' = Append(report, [tag |-> "already", items |-> {}])
           /\ content_files' = content_files
           /\ completed_lectures' = completed_lectures
           /\ progress_file' = progress_file)]_vars

C1_Witness == ReportedAs({"already"}) # {}

\* C2: a lecture id is in the completed set only after the lecture was
\* processed successfully: a lecture for which every applicable extractor
\* failed or returned nothing is not marked complete.
C2_OnlySuccessfulLecturesMarked ==
    \A k \in ReportedAs({"no_content"}) :
        ToString(course[k].id) \notin completed_lectures

\* C3: with --no-resume and a progress file of an earlier run (which the
\* run deleted), the completed set is empty when the lecture loop starts and
\* no lecture is skipped as already extracted.
C3_NoResumeStartsEmpty ==
    (Running /\ args.no_resume /\ run_start.had_file /\ run_start.cleared)
        => /\ (main_pc = "loop" /\ lecture_idx = 1) => completed_lectures = {}
           /\ ReportedAs({"already"}) = {}

\* C4: after a mark_lecture_complete whose write succeeded, the progress file
\* holds exactly the in-memory completed set, each id once, and this stays so
\* at every lecture boundary up to the next mark.
C4_ProgressFileIsWholeSet ==
    (Running /\ last_save = "ok")
        => /\ progress_file.state = "json"
           /\ PersistedIds(progress_file) = completed_lectures
           /\ Len(progress_file.completed_lectures) = Cardinality(completed_lectures)

C4_Witness ==
    /\ main_pc = "loop"
    /\ last_save = "ok"
    /\ Cardinality(completed_lectures) >= 2

\* C5: a run without --no-resume that follows an interrupted run skips
\* exactly the lectures whose ids the progress file held at the interruption
\* and processes every other lecture with an id that it does not skip as
\* promotional; when its loop ends, every such lecture has been processed by
\* one of the runs.
ResumedRun == Running /\ run_start.previous = "stopped" /\ ~args.no_resume

Persists ==
    PersistedIds(progress_file') \ PersistedIds(progress_file) # {}

\* such a step is the mark of the lecture the loop is at, taken after its
\* extractors have run and their files are written; with that lecture's id it
\* may write ids marked earlier whose write had failed. An id enters the
\* in-memory set at the mark of its lecture, or when a run loads the file.
PersistsAfterFiles ==
    /\ Persists =>
        /\ main_pc = "mark"
        /\ PersistedIds(progress_file') \ PersistedIds(progress_file)
              \subseteq completed_lectures \cup {ToString(Lecture.id)}
        /\ {<<lecture_number, e>> : e \in extracted_items} \subseteq content_files
        /\ report # <<>>
        /\ report[Len(report)].tag \in {"extracted", "no_content"}
    /\ completed_lectures' \ completed_lectures # {} =>
        \/ /\ main_pc = "mark"
           /\ completed_lectures' \ completed_lectures = {ToString(Lecture.id)}
        \/ /\ main_pc \in {"idle", "stopped", "done"}
           /\ completed_lectures' = PersistedIds(progress_file)

\* the loop moves on from a processed lecture
MovesOn == main_pc = "mark" /\ main_pc' = "loop"

CompletesRun == main_pc = "summary" /\ main_pc' = "done"

\* a run that follows a run that ended normally
AfterCompletedRun == Running /\ run_start.previous = "done"

\* the run found no progress: nothing is skipped as already extracted, and
\* when the loop ends every lecture with an id that was not skipped as
\* promotional has been processed in this run
StartsAfresh ==
    /\ ~run_start.had_file
    /\ run_start.persisted = {}
    /\ (main_pc = "loop" /\ lecture_idx = 1) => completed_lectures = {}
    /\ ReportedAs({"already"}) = {}
    /\ main_pc = "summary" =>
          \A k \in 1..Len(course) :
              (course[k].id # 0 /\ report[k].tag # "promotional")
                  => report[k].tag \in {"extracted", "no_content"}

\* C23 as stated: when the lecture loop and the summary steps complete, the
\* progress file is deleted, so the next run starts with an empty completed
\* set and processes every lecture again.
C23_ProgressDeletedOnCompletion ==
    /\ [][CompletesRun => progress_file'.state = "absent"]_vars
    /\ [](AfterCompletedRun => StartsAfresh)

\* C23 as amended: the progress file is deleted unless the unlink fails,
\* which is reported and leaves the file as it is; a next run that finds no
\* progress file starts with an empty completed set and processes every
\* lecture again.
C23_ProgressDeletedUnlessUnlinkFails ==
    /\ [][CompletesRun => progress_file' \in {AbsentFile, progress_file}]_vars
    /\ []((AfterCompletedRun /\ ~run_start.had_file) => StartsAfresh)

C23_Witness ==
    /\ AfterCompletedRun
    /\ ~run_start.had_file
    /\ main_pc = "summary"
    /\ content_files # {}
    /\ ReportedAs({"extracted"}) # {}

\* C24: lecture_number advances exactly once with every lecture the loop
\* passes, on the skip paths and on the processing path alike, so in every
\* run, first or resumed, it equals the position of the current lecture in
\* the flattened course order, and every file written for a lecture carries
\* that position as its number.
C24_LectureNumberIsPosition ==
    /\ [](Running => lecture_number = lecture_idx)
    /\ [][lecture_idx' = lecture_idx + 1 => lecture_number' = lecture_number + 1]_vars
    /\ [][lecture_number' # lecture_number =>
             (lecture_idx' = lecture_idx + 1 \/ (lecture_number' = 1 /\ lecture_idx' = 1))]_vars
    /\ [][\A f \in content_files' \ content_files : f[1] = lecture_idx]_vars

\* a resumed run skips the first lecture as already extracted and writes the
\* files of the second lecture under the number 2
C24_Witness ==
    /\ run_start.previous = "stopped"
    /\ run_start.persisted # {}
    /\ main_pc = "mark"
    /\ lecture_idx = 2
    /\ report[1].tag = "already"
    /\ extracted_items # {}
    /\ \E e \in extracted_items : <<2, e>> \in content_files

(***************************************************************************)
(* Part 2: UdemyAPIClient._make_request and its rate limiter.              *)
(***************************************************************************)
Min(a, b) == IF a <= b THEN a ELSE b

\* how one HTTP attempt of _make_request can end
Outcomes == {"ok",          \* status 200 and a JSON body
             "invalid_json",\* status 200, json.loads raises JSONDecodeError
             "status",      \* another status that urlopen does not raise for
             "http_401", "http_404", "http_error",  \* HTTPError
             "timeout",     \* URLError whose reason says "timed out"
             "url_error",   \* any other URLError
             "exception"}   \* any other exception

\* a bug: the exponent is attempt, so the delays start at base_delay * 2
BackoffDelay_from_attempt(a) == base_delay * (2 ^ a)

\* delay = base_delay * (2 ** (attempt - 1))
BackoffDelay(a) == base_delay * (2 ^ (a - 1))

\* a bug: the time already elapsed is slept, not the time that remains
RateLimitSleep_elapsed(e) == e

\* sleep_time = self.min_request_interval - elapsed
RateLimitSleep(e) == min_request_interval - e

Age(x) == IF x = -1 THEN -1 ELSE Min(x + 1, MaxElapsed)

\* a quarter second passes: while a thread sleeps, and otherwise as long as
\* one of the time differences the model follows still grows
Tick ==
    /\ \/ \E t \in DOMAIN pc : sleep_left[t] > 0
       \/ elapsed < MaxElapsed
       \/ dl_elapsed < MaxElapsed
    /\ elapsed' = Min(elapsed + 1, MaxElapsed)
    /\ dl_elapsed' = Min(dl_elapsed + 1, MaxElapsed)
    /\ since_attempt' = Age(since_attempt)
    /\ sleep_left' = [t \in DOMAIN pc |->
                         IF sleep_left[t] > 0 THEN sleep_left[t] - 1 ELSE 0]
    /\ UNCHANGED <<max_retries, retry_stats, pc, attempt, result, calls, outcomes,
                   sleeps, attempt_gap>>
    /\ UNCHANGED <<lock, tasks, extract_vars, tool_vars>>

\* _make_request is entered: url, base_delay, the debug lines
EnterMakeRequest(t) ==
    /\ pc' = [pc EXCEPT ![t] = "loop"]
    /\ attempt' = [attempt EXCEPT ![t] = 0]
    /\ result' = [result EXCEPT ![t] = "pending"]
    /\ calls' = [calls EXCEPT ![t] = @ + 1]
    /\ outcomes' = [outcomes EXCEPT ![t] = <<>>]
    /\ sleeps' = [sleeps EXCEPT ![t] = <<>>]
    /\ UNCHANGED <<max_retries, elapsed, retry_stats, sleep_left, since_attempt,
                   attempt_gap>>

\* the single-threaded caller (get_course_structure, get_lecture_transcript,
\* ...) makes its next request
CallMakeRequest(t) ==
    /\ pc[t] \in {"idle", "returned"}
    /\ calls[t] < MaxRequests
    /\ EnterMakeRequest(t)
    /\ UNCHANGED <<downloader_vars, extract_vars, tool_vars>>

\* for attempt in range(1, self.max_retries + 1); after the loop: return None
ForAttempt(t) ==
    /\ pc[t] = "loop"
    /\ IF attempt[t] < max_retries
       THEN /\ attempt' = [attempt EXCEPT ![t] = @ + 1]
            /\ pc' = [pc EXCEPT ![t] = "rate_limit"]
            /\ UNCHANGED result
       ELSE /\ result' = [result EXCEPT ![t] = "None"]
            /\ pc' = [pc EXCEPT ![t] = "returned"]
            /\ UNCHANGED attempt
    /\ UNCHANGED <<max_retries, elapsed, retry_stats, sleep_left, calls, outcomes,
                   sleeps, since_attempt, attempt_gap>>
    /\ UNCHANGED <<downloader_vars, extract_vars, tool_vars>>

\* _rate_limit: elapsed = time.time() - self.last_request_time, and the sleep
RateLimit(t) ==
    /\ pc[t] = "rate_limit"
    /\ IF elapsed < min_request_interval
       THEN /\ sleep_left' = [sleep_left EXCEPT ![t] = RateLimitSleep(elapsed)]
            /\ pc' = [pc EXCEPT ![t] = "rate_sleep"]
       ELSE /\ pc' = [pc EXCEPT ![t] = "send"]
            /\ UNCHANGED sleep_left
    /\ UNCHANGED <<max_retries, elapsed, retry_stats, attempt, result, calls,
                   outcomes, sleeps, since_attempt, attempt_gap>>
    /\ UNCHANGED <<downloader_vars, extract_vars, tool_vars>>

\* time.sleep(sleep_time) of _rate_limit is over
RateLimitWake(t) ==
    /\ pc[t] = "rate_sleep"
    /\ sleep_left[t] = 0
    /\ pc' = [pc EXCEPT ![t] = "send"]
    /\ UNCHANGED <<max_retries, elapsed, retry_stats, attempt, sleep_left, result,
                   calls, outcomes, sleeps, since_attempt, attempt_gap>>
    /\ UNCHANGED <<downloader_vars, extract_vars, tool_vars>>

\* self.last_request_time = time.time(), and the attempt is sent (urlopen)
Send(t) ==
    /\ pc[t] = "send"
    /\ elapsed' = 0
    /\ attempt_gap' = since_attempt
    /\ since_attempt' = 0
    /\ pc' = [pc EXCEPT ![t] = "response"]
    /\ UNCHANGED <<max_retries, retry_stats, attempt, sleep_left, result, calls,
                   outcomes, sleeps>>
    /\ UNCHANGED <<downloader_vars, extract_vars, tool_vars>>

Return(t, value) ==
    /\ result' = [result EXCEPT ![t] = value]
    /\ pc' = [pc EXCEPT ![t] = "returned"]
    /\ UNCHANGED <<sleep_left, sleeps>>

Bump(stats, counter) == [stats EXCEPT ![counter] = @ + 1]

\* a bug: a success on the first attempt counts as a successful retry
Respond_counts_first_success(t) ==
    /\ pc[t] = "response"
    /\ \E o \in Outcomes :
        /\ outcomes' = [outcomes EXCEPT ![t] = Append(@, o)]
        /\ CASE o = "ok" ->
                  \* if attempt > 1: successful_retries += 1; return json.loads(..)
                  /\ retry_stats' = Bump(retry_stats, "successful_retries")
                  /\ Return(t, "data")
             [] o = "invalid_json" ->
                  \* the counter is bumped before json.loads raises
                  /\ retry_stats' = IF attempt[t] > 1
                                    THEN Bump(retry_stats, "successful_retries")
                                    ELSE retry_stats
                  /\ Return(t, "None")
             [] o \in {"status", "http_401", "http_404", "http_error",
                       "url_error", "exception"} ->
                  /\ UNCHANGED retry_stats
                  /\ Return(t, "None")
             [] o = "timeout" ->
                  IF attempt[t] < max_retries
                  THEN /\ retry_stats' = Bump(Bump(retry_stats, "timeout_count"),
                                              "total_retries")
                       /\ sleeps' = [sleeps EXCEPT ![t] =
                                        Append(@, BackoffDelay(attempt[t]))]
                       /\ sleep_left' = [sleep_left EXCEPT ![t] =
                                            BackoffDelay(attempt[t])]
                       /\ pc' = [pc EXCEPT ![t] = "backoff"]
                       /\ UNCHANGED result
                  ELSE /\ retry_stats' = Bump(Bump(retry_stats, "timeout_count"),
                                              "failed_retries")
                       /\ Return(t, "None")
    /\ UNCHANGED <<max_retries, elapsed, attempt, calls, since_attempt, attempt_gap>>
    /\ UNCHANGED <<downloader_vars, extract_vars, tool_vars>>

\* the attempt ends: the with block and the except clauses of _make_request
Respond(t) ==
    /\ pc[t] = "response"
    /\ \E o \in Outcomes :
        /\ outcomes' = [outcomes EXCEPT ![t] = Append(@, o)]
        /\ CASE o = "ok" ->
                  \* if attempt > 1: successful_retries += 1; return json.loads(..)
                  /\ retry_stats' = IF attempt[t] > 1
                                    THEN Bump(retry_stats, "successful_retries")
                                    ELSE retry_stats
                  /\ Return(t, "data")
             [] o = "invalid_json" ->
                  \* the counter is bumped before json.loads raises
                  /\ retry_stats' = IF attempt[t] > 1
                                    THEN Bump(retry_stats, "successful_retries")
                                    ELSE retry_stats
                  /\ Return(t, "None")
             [] o \in {"status", "http_401", "http_404", "http_error",
                       "url_error", "exception"} ->
                  /\ UNCHANGED retry_stats
                  /\ Return(t, "None")
             [] o = "timeout" ->
                  IF attempt[t] < max_retries
                  THEN /\ retry_stats' = Bump(Bump(retry_stats, "timeout_count"),
                                              "total_retries")
                       /\ sleeps' = [sleeps EXCEPT ![t] =
                                        Append(@, BackoffDelay(attempt[t]))]
                       /\ sleep_left' = [sleep_left EXCEPT ![t] =
                                            BackoffDelay(attempt[t])]
                       /\ pc' = [pc EXCEPT ![t] = "backoff"]
                       /\ UNCHANGED result
                  ELSE /\ retry_stats' = Bump(Bump(retry_stats, "timeout_count"),
                                              "failed_retries")
                       /\ Return(t, "None")
    /\ UNCHANGED <<max_retries, elapsed, attempt, calls, since_attempt, attempt_gap>>
    /\ UNCHANGED <<downloader_vars, extract_vars, tool_vars>>

\* time.sleep(delay) is over: continue
BackoffWake(t) ==
    /\ pc[t] = "backoff"
    /\ sleep_left[t] = 0
    /\ pc' = [pc EXCEPT ![t] = "loop"]
    /\ UNCHANGED <<max_retries, elapsed, retry_stats, attempt, sleep_left, result,
                   calls, outcomes, sleeps, since_attempt, attempt_gap>>
    /\ UNCHANGED <<downloader_vars, extract_vars, tool_vars>>

\* the extraction loop does not run while the client is studied
ExtractIdle ==
    /\ course = <<>>
    /\ args = DefaultArguments
    /\ progress_file = AbsentFile
    /\ content_files = {}
    /\ completed_lectures = {}
    /\ lecture_idx = 1
    /\ lecture_number = 1
    /\ extracted_items = {}
    /\ main_pc = "idle"
    /\ report = <<>>
    /\ runs = 0
    /\ run_start = NoRunStart
    /\ last_save = "none"
    /\ processed_ever = {}

MainThread == 0

\* UdemyAPIClient(max_retries=...) used by the main thread alone
InitRequest ==
    /\ max_retries \in 0..MaxRetries
    /\ ClientIdle({MainThread})
    /\ DownloaderIdle
    /\ ExtractIdle
    /\ ToolsIdle

NextRequest ==
    \/ Tick
    \/ CallMakeRequest(MainThread)
    \/ ForAttempt(MainThread)
    \/ RateLimit(MainThread)
    \/ RateLimitWake(MainThread)
    \/ Send(MainThread)
    \/ Respond(MainThread)
    \/ BackoffWake(MainThread)

SpecRequest == InitRequest /\ [][NextRequest]_vars

(***************************************************************************)
(* Claims about _make_request called from one thread.                      *)
(***************************************************************************)
Last(seq) == seq[Len(seq)]

TimedOutThroughout(t) ==
    /\ pc[t] = "returned"
    /\ outcomes[t] # <<>>
    /\ \A k \in DOMAIN outcomes[t] : outcomes[t][k] = "timeout"

\* C6: with max_retries = N, a request whose attempts keep timing out is
\* retried N times after the initial attempt (N + 1 attempts) before
\* _make_request gives up and returns None.
C6_RetriedMaxRetriesTimes ==
    \A t \in DOMAIN pc :
        TimedOutThroughout(t) =>
            /\ result[t] = "None"
            /\ Len(outcomes[t]) = max_retries + 1

\* C7: the delay slept before the retry that follows the k-th timed-out attempt
\* is base_delay * 2^(k-1) (2 s, 4 s, 8 s, ...), and no backoff delay is slept
\* after the last allowed attempt.
C7_BackoffDoubles ==
    \A t \in DOMAIN pc :
        /\ \A k \in DOMAIN sleeps[t] :
              /\ sleeps[t][k] = base_delay * (2 ^ (k - 1))
              /\ outcomes[t][k] = "timeout"
        /\ Len(sleeps[t]) =
              Cardinality({k \in DOMAIN outcomes[t] :
                              outcomes[t][k] = "timeout" /\ k < max_retries})
        /\ pc[t] = "backoff" => sleep_left[t] <= Last(sleeps[t])
        /\ TimedOutThroughout(t) =>
              /\ Len(sleeps[t]) = Len(outcomes[t]) - 1
              /\ sleep_left[t] = 0

C7_Witness ==
    /\ TimedOutThroughout(MainThread)
    /\ Len(sleeps[MainThread]) >= 2

NonTimeoutErrors == Outcomes \ {"ok", "timeout"}

\* C8: only timeouts are retried: an attempt that ends in an HTTP error, a
\* non-timeout network error, an invalid JSON body or any other exception ends
\* the request at once with None, with no backoff sleep and no change to
\* total_retries, successful_retries and failed_retries.
C8_OtherErrorsEndTheRequest ==
    [][\A t \in DOMAIN pc :
          (/\ pc[t] = "response"
           /\ pc'[t] # "response"
           /\ Last(outcomes'[t]) \in NonTimeoutErrors)
          => (/\ pc'[t] = "returned"
              /\ result'[t] = "None"
              /\ sleeps'[t] = sleeps[t]
              /\ sleep_left'[t] = 0
              /\ retry_stats'.total_retries = retry_stats.total_retries
              /\ retry_stats'.successful_retries = retry_stats.successful_retries
              /\ retry_stats'.failed_retries = retry_stats.failed_retries)]_vars

\* C9: any two consecutive HTTP attempts of one client used from one thread
\* (retries included, across requests) start at least min_request_interval
\* apart.
C9_AttemptsSpaced ==
    attempt_gap # -1 => attempt_gap >= min_request_interval

\* the first attempt of a second request, sent after the rate limiter slept
\* for the time that remained
C9_Witness ==
    /\ calls[MainThread] = 2
    /\ pc[MainThread] = "response"
    /\ attempt[MainThread] = 1
    /\ attempt_gap = min_request_interval

\* main: max_retries = 0 if args.no_retry else args.max_retries
ClientMaxRetries(no_retry, arg_max_retries) ==
    IF no_retry THEN 0 ELSE arg_max_retries

\* the client main() constructs when --no-retry is given
NoRetryClient ==
    \E n \in 0..MaxRetries : max_retries = ClientMaxRetries(TRUE, n)

\* C12: with --no-retry every API request is still attempted exactly once and
\* returns None on its first error without any retry; a request that succeeds
\* on its first attempt still succeeds.
C12_NoRetryStillAttemptsOnce ==
    \A t \in DOMAIN pc :
        (NoRetryClient /\ pc[t] = "returned") =>
            /\ Len(outcomes[t]) = 1
            /\ sleeps[t] = <<>>
            /\ result[t] = IF outcomes[t][1] = "ok" THEN "data" ELSE "None"

\* no call of _make_request is under way
BetweenCalls == \A t \in DOMAIN pc : pc[t] \in {"idle", "returned"}

RetryCounters == {"total_retries", "successful_retries", "failed_retries",
                  "timeout_count"}

\* C25: after any sequence of _make_request calls every timeout has been
\* counted either as a retry or as a final failure, there are no more
\* successful retries than retries, and no counter ever decreases.
C25_RetryStatsConsistent ==
    /\ [](BetweenCalls =>
             /\ retry_stats.timeout_count
                    = retry_stats.total_retries + retry_stats.failed_retries
             /\ retry_stats.successful_retries <= retry_stats.total_retries)
    /\ [][\A c \in RetryCounters : retry_stats'[c] >= retry_stats[c]]_vars

\* two calls: one succeeded after a retry, one timed out on every attempt
C25_Witness ==
    /\ BetweenCalls
    /\ \E t \in DOMAIN pc : calls[t] = 2
    /\ retry_stats.successful_retries >= 1
    /\ retry_stats.failed_retries >= 1
    /\ retry_stats.timeout_count >= 3

(***************************************************************************)
(* Part 3: ParallelTranscriptDownloader: worker threads of a thread pool   *)
(* that share one UdemyAPIClient.                                          *)
(***************************************************************************)
Workers == 1..max_workers

\* executor.submit(self._download_with_rate_limit, ...): an idle worker of
\* the pool takes the next download
TakeTask(t) ==
    /\ pc[t] = "idle"
    /\ tasks > 0
    /\ tasks' = tasks - 1
    /\ pc' = [pc EXCEPT ![t] = "acquire"]
    /\ UNCHANGED <<max_retries, elapsed, retry_stats, attempt, sleep_left, result,
                   calls, outcomes, sleeps, since_attempt, attempt_gap>>
    /\ UNCHANGED <<lock, dl_elapsed, extract_vars, tool_vars>>

\* with self.lock: elapsed = time.time() - self.last_request_time, and the
\* sleep, which is taken while the lock is held
Acquire(t) ==
    /\ pc[t] = "acquire"
    /\ lock = 0
    /\ lock' = t
    /\ IF dl_elapsed < rate_limit
       THEN /\ sleep_left' = [sleep_left EXCEPT ![t] = rate_limit - dl_elapsed]
            /\ pc' = [pc EXCEPT ![t] = "dl_sleep"]
       ELSE /\ pc' = [pc EXCEPT ![t] = "dl_stamp"]
            /\ UNCHANGED sleep_left
    /\ UNCHANGED <<max_retries, elapsed, retry_stats, attempt, result, calls,
                   outcomes, sleeps, since_attempt, attempt_gap>>
    /\ UNCHANGED <<dl_elapsed, tasks, extract_vars, tool_vars>>

\* time.sleep(sleep_time) of _download_with_rate_limit is over
DownloaderWake(t) ==
    /\ pc[t] = "dl_sleep"
    /\ sleep_left[t] = 0
    /\ pc' = [pc EXCEPT ![t] = "dl_stamp"]
    /\ UNCHANGED <<max_retries, elapsed, retry_stats, attempt, sleep_left, result,
                   calls, outcomes, sleeps, since_attempt, attempt_gap>>
    /\ UNCHANGED <<downloader_vars, extract_vars, tool_vars>>

\* self.last_request_time = time.time(); the lock is released; then
\* api_client.get_lecture_transcript(...) calls _make_request
Release(t) ==
    /\ pc[t] = "dl_stamp"
    /\ lock = t
    /\ dl_elapsed' = 0
    /\ lock' = 0
    /\ EnterMakeRequest(t)
    /\ UNCHANGED <<tasks, extract_vars, tool_vars>>

\* get_lecture_transcript after _make_request: without data, captions or an
\* English caption it returns None; else _download_and_parse_vtt fetches the
\* caption file from its own URL, outside _make_request and its rate limiter
TranscriptReturn(t) ==
    /\ pc[t] = "returned"
    /\ \E english_caption \in BOOLEAN :
        pc' = [pc EXCEPT ![t] =
                  IF result[t] = "data" /\ english_caption THEN "vtt" ELSE "idle"]
    \* the locals of _make_request are gone
    /\ attempt' = [attempt EXCEPT ![t] = 0]
    /\ result' = [result EXCEPT ![t] = "pending"]
    /\ outcomes' = [outcomes EXCEPT ![t] = <<>>]
    /\ sleeps' = [sleeps EXCEPT ![t] = <<>>]
    /\ UNCHANGED <<max_retries, elapsed, retry_stats, sleep_left, calls,
                   since_attempt, attempt_gap>>
    /\ UNCHANGED <<downloader_vars, extract_vars, tool_vars>>

\* _download_and_parse_vtt returns the cues or None: the future is done
DownloadVtt(t) ==
    /\ pc[t] = "vtt"
    /\ pc' = [pc EXCEPT ![t] = "idle"]
    /\ UNCHANGED <<max_retries, elapsed, retry_stats, attempt, sleep_left, result,
                   calls, outcomes, sleeps, since_attempt, attempt_gap>>
    /\ UNCHANGED <<downloader_vars, extract_vars, tool_vars>>

\* ParallelTranscriptDownloader(api_client) is constructed (its
\* last_request_time = time.time()) and download_batch(course_id, lectures)
\* is called with 1..MaxBatch lectures that have an id
InitParallel ==
    /\ max_retries \in 1..MaxWorkerRetries
    /\ ClientIdle(Workers)
    /\ lock = 0
    /\ dl_elapsed = 0
    /\ tasks \in 1..MaxBatch
    /\ ExtractIdle
    /\ ToolsIdle

NextParallel ==
    \/ Tick
    \/ \E t \in Workers : TakeTask(t)
    \/ \E t \in Workers : Acquire(t)
    \/ \E t \in Workers : DownloaderWake(t)
    \/ \E t \in Workers : Release(t)
    \/ \E t \in Workers : ForAttempt(t)
    \/ \E t \in Workers : RateLimit(t)
    \/ \E t \in Workers : RateLimitWake(t)
    \/ \E t \in Workers : Send(t)
    \/ \E t \in Workers : Respond(t)
    \/ \E t \in Workers : BackoffWake(t)
    \/ \E t \in Workers : TranscriptReturn(t)
    \/ \E t \in Workers : DownloadVtt(t)

SpecParallel == InitParallel /\ [][NextParallel]_vars

\* C10: any two HTTP requests the workers of download_batch issue through the
\* shared API client (retries included) are at least the minimum interval
\* apart, in every interleaving of the threads.
C10_WorkerRequestsSpaced ==
    attempt_gap # -1 => attempt_gap >= min_request_interval

(***************************************************************************)
(* Part 4: UdemyAPIClient.detect_content_type.                             *)
(***************************************************************************)
\* the words lecture titles are made of; a title is a sequence of words
TitleWords == {"solution", "quiz", "Quiz", "exercise", "practice", "bonus",
               "keep", "learning", "certificate", "congratulations",
               "additional", "resource", "tips", "guide", "reference", "intro"}

\* asset.get('asset_type', ''): "" when the key is missing
AssetTypes == {"", "video", "Video", "article", "Article", "e-book", "file",
               "audio"}

\* str.lower() on the words and asset types above
Lower(w) ==
    CASE w = "Quiz" -> "quiz"
      [] w = "Video" -> "video"
      [] w = "Article" -> "article"
      [] OTHER -> w

LowerTitle(t) == [k \in DOMAIN t |-> Lower(t[k])]

\* word in title: the phrase occurs in the title
In(phrase, t) ==
    \E k \in 0..(Len(t) - Len(phrase)) :
        \A j \in 1..Len(phrase) : t[k + j] = phrase[j]

\* any(word in title for word in words)
AnyIn(phrases, t) == \E w \in phrases : In(w, t)

Titles == UNION {[1..n -> TitleWords] : n \in 0..MaxTitleWords}

\* the lectures of the API: the asset's type and whether its media_sources,
\* body and view_html are present and non-empty, and the title
LectureData ==
    [asset_type : AssetTypes, media_sources : BOOLEAN, body : BOOLEAN,
     view_html : BOOLEAN, title : Titles]

\* a bug: the quiz and exercise patterns are looked for before 'solution'
detect_content_type_quiz_first(lecture) ==
    LET asset_type == Lower(lecture.asset_type)
        title == LowerTitle(lecture.title)
    IN  IF asset_type = "video" \/ lecture.media_sources THEN "video"
        ELSE IF asset_type = "article" \/ lecture.body \/ lecture.view_html
        THEN IF AnyIn({<<"quiz">>, <<"exercise">>, <<"practice">>}, title)
             THEN IF In(<<"quiz">>, title) THEN "quiz" ELSE "coding_exercise"
             ELSE IF In(<<"solution">>, title) THEN "coding_solution"
             ELSE IF AnyIn({<<"bonus">>, <<"keep", "learning">>,
                            <<"certificate">>, <<"congratulations">>}, title)
             THEN "promotional"
             ELSE IF AnyIn({<<"additional", "resource">>, <<"tips">>,
                            <<"guide">>, <<"reference">>}, title)
             THEN "technical_resource"
             ELSE "article"
        ELSE IF asset_type = "e-book" \/ asset_type = "file" THEN "ebook"
        ELSE "unknown"

detect_content_type(lecture) ==
    LET asset_type == Lower(lecture.asset_type)
        title == LowerTitle(lecture.title)
    IN  IF asset_type = "video" \/ lecture.media_sources THEN "video"
        ELSE IF asset_type = "article" \/ lecture.body \/ lecture.view_html
        THEN IF In(<<"solution">>, title) THEN "coding_solution"
             ELSE IF AnyIn({<<"quiz">>, <<"exercise">>, <<"practice">>}, title)
             THEN IF In(<<"quiz">>, title) THEN "quiz" ELSE "coding_exercise"
             ELSE IF AnyIn({<<"bonus">>, <<"keep", "learning">>,
                            <<"certificate">>, <<"congratulations">>}, title)
             THEN "promotional"
             ELSE IF AnyIn({<<"additional", "resource">>, <<"tips">>,
                            <<"guide">>, <<"reference">>}, title)
             THEN "technical_resource"
             ELSE "article"
        ELSE IF asset_type = "e-book" \/ asset_type = "file" THEN "ebook"
        ELSE "unknown"

\* everything but detect_content_type's own state
not_detect_vars == <<extract_vars, request_vars, cache_vars, slug_vars, adr_vars, validate_vars, promote_vars, youtube_vars, scanner_vars, supersede_vars>>

\* content_type = api_client.detect_content_type(lecture)
DetectContentType ==
    /\ detected_type = "pending"
    /\ detected_type' = detect_content_type(lecture_data)
    /\ UNCHANGED <<lecture_data, not_detect_vars>>

InitDetect ==
    /\ lecture_data \in LectureData
    /\ detected_type = "pending"
    /\ ExtractIdle
    /\ RequestIdle
    /\ ToolsIdleBut("detect")

NextDetect == DetectContentType

SpecDetect == InitDetect /\ [][NextDetect]_vars

(***************************************************************************)
(* Claims about detect_content_type.                                       *)
(***************************************************************************)
ContentTags == {"video", "article", "coding_solution", "quiz", "coding_exercise",
                "promotional", "technical_resource", "ebook", "unknown"}

\* the rules in their order: the tag and whether the rule matches the lecture
TagRules(l) ==
    LET kind == Lower(l.asset_type)
        words == Range(LowerTitle(l.title))
        two == {<<LowerTitle(l.title)[k], LowerTitle(l.title)[k + 1]>> :
                   k \in 1..(Len(l.title) - 1)}
        is_article == kind = "article" \/ l.body \/ l.view_html
    IN  << <<"video", kind = "video" \/ l.media_sources>>,
           <<"coding_solution", is_article /\ "solution" \in words>>,
           <<"quiz", is_article /\ "quiz" \in words>>,
           <<"coding_exercise",
             is_article /\ ({"exercise", "practice"} \cap words) # {}>>,
           <<"promotional",
             is_article /\ (\/ ({"bonus", "certificate", "congratulations"}
                                   \cap words) # {}
                            \/ <<"keep", "learning">> \in two)>>,
           <<"technical_resource",
             is_article /\ (\/ ({"tips", "guide", "reference"} \cap words) # {}
                            \/ <<"additional", "resource">> \in two)>>,
           <<"article", is_article>>,
           <<"ebook", kind \in {"e-book", "file"}>>,
           <<"unknown", TRUE>> >>

FirstMatch(rules) ==
    rules[CHOOSE k \in DOMAIN rules :
              /\ rules[k][2]
              /\ \A j \in 1..(k - 1) : ~rules[j][2]][1]

HalfDaysPerDay == 2

Contents == {"v1", "v2"}
Titles5 == {"Title"}

\* a timestamp string: "", something fromisoformat rejects, or an ISO date
\* and time with its suffix ("Z", a UTC offset, or none)
IsoTimestamp(wall, tz) == [kind |-> "iso", wall |-> wall, tz |-> tz]
InvalidTimestamp == [kind |-> "invalid", wall |-> 0, tz |-> ""]

\* the UTC offsets of the suffixes, in half days
TzOffset(tz) ==
    CASE tz = "+00:00" -> 0
      [] tz = "+12:00" -> 1
      [] tz = "-12:00" -> 0 - 1

\* expires_at_str.replace("Z", "+00:00")
ReplaceZ(tz) == IF tz = "Z" THEN "+00:00" ELSE tz

\* now.isoformat() + "Z" for the naive UTC time now
IsoformatZ(now) == IsoTimestamp(now, "Z")

\* paths are sequences of names under the cache dir; Path / "" is the Path
EntriesDir == <<"entries">>
EntryDir(slug) == IF slug = "" THEN EntriesDir ELSE Append(EntriesDir, slug)
MetadataFile(slug) == Append(EntryDir(slug), "metadata.json")
ContentFile(slug) == Append(EntryDir(slug), "content.md")

Parent(path) == SubSeq(path, 1, Len(path) - 1)
\* entry_dir.iterdir(), files and directories
ChildFiles(dir, files) == {f \in DOMAIN files : Parent(f) = dir}
ChildDirs(dir, dirs) == {d \in dirs : Parent(d) = dir}

WriteText(files, path, data) ==
    [f \in DOMAIN files \cup {path} |-> IF f = path THEN data ELSE files[f]]
Unlink(files, paths) == [f \in DOMAIN files \ paths |-> files[f]]

\* ensure_cache_dir: entries/ and index.json exist afterwards
ensure_cache_dir_index(index) ==
    IF index.exists THEN index ELSE [exists |-> TRUE, data |-> <<>>]

\* get_index
get_index(index) == IF index.exists THEN index.data ELSE <<>>

\* save_index, which calls ensure_cache_dir first
save_index(data) == [exists |-> TRUE, data |-> data]

\* get_entry: both files must exist
get_entry(slug, files) ==
    IF MetadataFile(slug) \notin DOMAIN files \/ ContentFile(slug) \notin DOMAIN files
    THEN NoEntry
    ELSE [found |-> TRUE,
          content |-> files[ContentFile(slug)].text,
          title |-> files[MetadataFile(slug)].title,
          researched_at |-> files[MetadataFile(slug)].researched_at,
          expires_at |-> files[MetadataFile(slug)].expires_at]

\* a bug: the time is always taken in local time, also for a timestamp that
\* carries a UTC offset
check_expiration_local_now(expires_at_str, now, local) ==
    IF expires_at_str.kind = "empty" THEN TRUE
    ELSE IF expires_at_str.kind = "invalid" THEN TRUE
    ELSE now + local > expires_at_str.wall

\* check_expiration(metadata)["expired"]: now is the UTC time, local the
\* offset of local time
check_expiration(expires_at_str, now, local) ==
    IF expires_at_str.kind = "empty" THEN TRUE
    ELSE IF expires_at_str.kind = "invalid" THEN TRUE   \* ValueError
    ELSE LET tz == ReplaceZ(expires_at_str.tz)
         IN  IF tz # ""
             \* aware: datetime.now(tzinfo) > expires_at compares instants
             THEN now > expires_at_str.wall - TzOffset(tz)
             \* naive: datetime.now() > expires_at compares local times
             ELSE now + local > expires_at_str.wall

\* index_generator.check_expiration(expires_at)
index_check_expiration(expires_at, now, local) ==
    IF expires_at.kind = "empty" THEN TRUE
    ELSE IF expires_at.kind = "invalid" THEN TRUE
    ELSE LET tz == ReplaceZ(expires_at.tz)
         IN  IF tz # ""
             THEN now > expires_at.wall - TzOffset(tz)
             ELSE now + local > expires_at.wall

not_cache_vars == <<extract_vars, request_vars, detect_vars, slug_vars, adr_vars, validate_vars, promote_vars, youtube_vars, scanner_vars, supersede_vars>>

Result(cmd, slug) == [NoResult EXCEPT !.cmd = cmd, !.slug = slug]

\* put_entry(slug, title, content)
PutEntry ==
    \E slug \in Slugs, title \in Titles5, content \in Contents :
        LET now == cache_now
            metadata == [title |-> title,
                         researched_at |-> IsoformatZ(now),
                         expires_at |-> IsoformatZ(now + ttl_days * HalfDaysPerDay)]
            entry == [found |-> TRUE, content |-> content, title |-> title,
                      researched_at |-> metadata.researched_at,
                      expires_at |-> metadata.expires_at]
            index == get_index(ensure_cache_dir_index(index_json))
        IN  /\ cache_dirs' = cache_dirs \cup {EntriesDir, EntryDir(slug)}
            /\ cache_files' = WriteText(WriteText(cache_files, MetadataFile(slug),
                                                  metadata),
                                        ContentFile(slug), [text |-> content])
            /\ index_json' = save_index(
                  [k \in DOMAIN index \cup {slug} |->
                      IF k = slug THEN metadata ELSE index[k]])
            /\ cache_result' = [Result("put", slug) EXCEPT !.ok = TRUE, !.entry = entry]
            /\ cached' = [cached EXCEPT ![slug] = entry]
            /\ UNCHANGED <<cache_now, utc_offset, ttl_days, not_cache_vars>>

\* get_entry(slug)
GetEntry ==
    \E slug \in Slugs :
        /\ cache_result' = [Result("get", slug) EXCEPT
                               !.entry = get_entry(slug, cache_files),
                               !.ok = get_entry(slug, cache_files).found]
        /\ UNCHANGED <<cache_dirs, cache_files, index_json, cache_now, utc_offset,
                       ttl_days, cached, not_cache_vars>>

\* delete_entry(slug)
DeleteEntry ==
    \E slug \in Slugs :
        LET entry_dir == EntryDir(slug)
            files == ChildFiles(entry_dir, cache_files)
            index == get_index(index_json)
            existed == cached[slug].found
        IN  /\ cached' = [cached EXCEPT ![slug] = NoEntry]
            /\ IF entry_dir \notin cache_dirs
               THEN \* return False
                    /\ cache_result' = [Result("delete", slug) EXCEPT
                                           !.existed = existed]
                    /\ UNCHANGED <<cache_dirs, cache_files, index_json>>
               ELSE IF ChildDirs(entry_dir, cache_dirs) # {}
               THEN \* f.unlink() on a directory raises; the files that
                    \* iterdir() gave before it are gone
                    /\ \E gone \in SUBSET files :
                          cache_files' = Unlink(cache_files, gone)
                    /\ cache_result' = [Result("delete", slug) EXCEPT
                                           !.raised = TRUE, !.existed = existed]
                    /\ UNCHANGED <<cache_dirs, index_json>>
               ELSE \* the files and the directory are removed; return True
                    /\ cache_files' = Unlink(cache_files, files)
                    /\ IF slug \in DOMAIN index
                       THEN /\ index_json' = save_index(
                                  [k \in DOMAIN index \ {slug} |-> index[k]])
                            /\ cache_dirs' = (cache_dirs \ {entry_dir})
                                                \cup {EntriesDir}
                       ELSE /\ UNCHANGED index_json
                            /\ cache_dirs' = cache_dirs \ {entry_dir}
                    /\ cache_result' = [Result("delete", slug) EXCEPT
                                           !.ok = TRUE, !.existed = existed]
            /\ UNCHANGED <<cache_now, utc_offset, ttl_days, not_cache_vars>>

\* timestamps of metadata that put_entry did not write
ForeignTimestamps ==
    {NoTimestamp, InvalidTimestamp}
        \cup {IsoTimestamp(w, tz) : w \in 0..MaxClock,
                                    tz \in {"", "Z", "+12:00", "-12:00"}}

\* cmd_check / cmd_get: check_expiration(entry["metadata"]) on an entry of the
\* cache, or on metadata written by hand
CheckExpiration ==
    \E stamp \in {get_entry(s, cache_files).expires_at :
                     s \in {k \in Slugs : get_entry(k, cache_files).found}}
                 \cup ForeignTimestamps :
        /\ cache_result' = [Result("check", "") EXCEPT
              !.stamp = stamp,
              !.ok = check_expiration(stamp, cache_now, utc_offset)]
        /\ UNCHANGED <<cache_dirs, cache_files, index_json, cache_now, utc_offset,
                       ttl_days, cached, not_cache_vars>>

\* generate_cache_readme: check_expiration(entry.get("expires_at", "")) for an
\* entry of index.json
IndexCheckExpiration ==
    \E slug \in DOMAIN get_index(index_json) :
        /\ cache_result' = [Result("index_check", slug) EXCEPT
              !.stamp = get_index(index_json)[slug].expires_at,
              !.ok = index_check_expiration(get_index(index_json)[slug].expires_at,
                                            cache_now, utc_offset)]
        /\ UNCHANGED <<cache_dirs, cache_files, index_json, cache_now, utc_offset,
                       ttl_days, cached, not_cache_vars>>

\* half a day passes; the last command's output is history
CacheTick ==
    /\ cache_now < MaxClock
    /\ cache_now' = cache_now + 1
    /\ cache_result' = NoResult
    /\ UNCHANGED <<cache_dirs, cache_files, index_json, utc_offset, ttl_days,
                   cached, not_cache_vars>>

InitCache ==
    /\ cache_dirs = {}
    /\ cache_files = <<>>
    /\ index_json = [exists |-> FALSE, data |-> <<>>]
    /\ cache_now = 0
    /\ utc_offset \in {0 - 1, 0, 1}
    /\ ttl_days \in 1..MaxTtlDays
    /\ cache_result = NoResult
    /\ cached = [s \in Slugs |-> NoEntry]
    /\ ExtractIdle
    /\ RequestIdle
    /\ ToolsIdleBut("cache")

NextCache ==
    \/ PutEntry
    \/ GetEntry
    \/ DeleteEntry
    \/ CheckExpiration
    \/ IndexCheckExpiration
    \/ CacheTick

SpecCache == InitCache /\ [][NextCache]_vars

(***************************************************************************)
(* Claims about the research cache.                                        *)
(***************************************************************************)
\* what get_entry returns for every slug is what the commands so far should
\* have left, and the last command returned what the map would have
ReadsWhatWasPut ==
    /\ \A s \in Slugs : get_entry(s, cache_files) = cached[s]
    /\ cache_result.cmd = "get" =>
          cache_result.entry = cached[cache_result.slug]
    /\ cache_result.cmd = "delete" =>
          /\ ~cache_result.raised
          /\ cache_result.ok = cache_result.existed

\* a delete_entry that returned False
DeleteReturnedFalse ==
    /\ cache_result' # cache_result
    /\ cache_result'.cmd = "delete"
    /\ ~cache_result'.ok
    /\ ~cache_result'.raised

\* C14: the research cache is a key-value map over sequences of commands:
\* get_entry(slug) returns the content and metadata of the most recent
\* put_entry(slug, ...) not followed by delete_entry(slug), and None otherwise;
\* delete_entry returns True exactly when an entry existed, and a delete_entry
\* that returns False changes neither the entries nor index.json.
C14_CacheIsKeyValueMap ==
    /\ []ReadsWhatWasPut
    /\ [][DeleteReturnedFalse =>
             UNCHANGED <<cache_dirs, cache_files, index_json>>]_vars

\* the same for the slugs that are not empty
C14_NonEmptySlugs ==
    /\ \A s \in Slugs \ {""} : get_entry(s, cache_files) = cached[s]
    /\ (cache_result.cmd = "get" /\ cache_result.slug # "") =>
          cache_result.entry = cached[cache_result.slug]
    /\ (cache_result.cmd = "delete" /\ cache_result.slug # "") =>
          /\ ~cache_result.raised
          /\ cache_result.ok = cache_result.existed

\* the moment (UTC) a timestamp denotes: the suffix gives the offset, and a
\* timestamp without one is local time
Instant(ts) ==
    ts.wall - (CASE ts.tz = "Z" -> 0
                 [] ts.tz = "" -> utc_offset
                 [] OTHER -> TzOffset(ts.tz))

\* C15: for an entry with a parseable expires_at, check_expiration (of
\* cache_manager and of index_generator) reports expired exactly when the
\* current time is strictly later than expires_at; an entry written by
\* put_entry with a TTL of d > 0 days is reported valid immediately after the
\* put.
C15_ExpiredStrictlyAfter ==
    /\ (cache_result.cmd \in {"check", "index_check"}
           /\ cache_result.stamp.kind = "iso")
          => (cache_result.ok <=> cache_now > Instant(cache_result.stamp))
    /\ cache_result.cmd = "put" =>
          /\ ~check_expiration(cache_result.entry.expires_at, cache_now, utc_offset)
          /\ ~index_check_expiration(cache_result.entry.expires_at, cache_now,
                                     utc_offset)

\* an entry of the cache checked at the very moment it expires, away from UTC:
\* reported valid
C15_Witness ==
    /\ cache_result.cmd = "check"
    /\ ~cache_result.ok
    /\ utc_offset # 0
    /\ \E s \in Slugs : /\ cached[s].found
                        /\ cached[s].expires_at = cache_result.stamp
    /\ cache_now = Instant(cache_result.stamp)

\* the slug has an entry directory with metadata.json and content.md
HasEntryFiles(slug) ==
    /\ EntryDir(slug) \in cache_dirs
    /\ MetadataFile(slug) \in DOMAIN cache_files
    /\ ContentFile(slug) \in DOMAIN cache_files

\* the records of index.json for these slugs are the entries on disk
IndexMatchesEntries(slugs) ==
    LET index == get_index(index_json)
    IN  /\ DOMAIN index \cap slugs = {s \in slugs : HasEntryFiles(s)}
        /\ \A s \in DOMAIN index \cap slugs :
              HasEntryFiles(s) =>
                  index[s].expires_at = cache_files[MetadataFile(s)].expires_at

\* C26: starting from an empty cache, after any sequence of put_entry and
\* delete_entry calls executed one at a time, the key set of index.json is
\* the set of slugs that have an entry directory with metadata.json and
\* content.md, and each index record's expires_at is the expires_at of that
\* entry's metadata.json.
C26_IndexMatchesEntries == IndexMatchesEntries(Slugs)

\* the same for the slugs that are not empty
C26_NonEmptySlugs == IndexMatchesEntries(Slugs \ {""})

(***************************************************************************)
(* Part 6: deep-research, normalize_slug. A string is a sequence of        *)
(* characters.                                                             *)
(***************************************************************************)
\* the characters topics are made of
TopicChars == {"c", "C", "#", "+", "-", " ", "x", "7"}

Topics == UNION {[1..n -> TopicChars] : n \in 0..MaxTopicLen}

\* str.lower(), on the characters above
LowerChar(c) == IF c = "C" THEN "c" ELSE c

\* [a-z0-9]
SlugAlnum == {"a", "b", "c", "d", "e", "f", "g", "h", "i", "j", "k", "l", "m",
              "n", "o", "p", "q", "r", "s", "t", "u", "v", "w", "x", "y", "z",
              "0", "1", "2", "3", "4", "5", "6", "7", "8", "9"}

\* str.replace(old, new): the occurrences from the left, not overlapping
RECURSIVE Replace(_, _, _)
Replace(str, old, new) ==
    IF Len(str) < Len(old) THEN str
    ELSE IF SubSeq(str, 1, Len(old)) = old
         THEN new \o Replace(SubSeq(str, Len(old) + 1, Len(str)), old, new)
         ELSE <<Head(str)>> \o Replace(Tail(str), old, new)

\* the string without its longest prefix of characters of the set
RECURSIVE DropWhileIn(_, _)
DropWhileIn(str, chars) ==
    IF str # <<>> /\ Head(str) \in chars THEN DropWhileIn(Tail(str), chars) ELSE str

\* re.sub(r"[^a-z0-9]+", "-", str)
RECURSIVE SubNonAlnum(_)
SubNonAlnum(str) ==
    IF str = <<>> THEN <<>>
    ELSE IF Head(str) \in SlugAlnum THEN <<Head(str)>> \o SubNonAlnum(Tail(str))
    ELSE <<"-">> \o SubNonAlnum(DropWhileIn(str, TopicChars \ SlugAlnum))

\* re.sub(r"-+", "-", str)
RECURSIVE CollapseHyphens(_)
CollapseHyphens(str) ==
    IF str = <<>> THEN <<>>
    ELSE IF Head(str) = "-" THEN <<"-">> \o CollapseHyphens(DropWhileIn(str, {"-"}))
    ELSE <<Head(str)>> \o CollapseHyphens(Tail(str))

Reverse(str) == [k \in 1..Len(str) |-> str[Len(str) + 1 - k]]

\* str.strip("-")
StripHyphens(str) ==
    Reverse(DropWhileIn(Reverse(DropWhileIn(str, {"-"})), {"-"}))

\* a bug: the hyphens are stripped before the special characters are replaced
normalize_slug_strip_first(str) ==
    LET lowered == [k \in DOMAIN str |-> LowerChar(str[k])]
        named == Replace(Replace(lowered, <<"c", "#">>,
                                 <<"c", "s", "h", "a", "r", "p">>),
                         <<"c", "+", "+">>, <<"c", "p", "p">>)
    IN  CollapseHyphens(SubNonAlnum(StripHyphens(named)))

normalize_slug(str) ==
    LET lowered == [k \in DOMAIN str |-> LowerChar(str[k])]
        named == Replace(Replace(lowered, <<"c", "#">>,
                                 <<"c", "s", "h", "a", "r", "p">>),
                         <<"c", "+", "+">>, <<"c", "p", "p">>)
    IN  CollapseHyphens(StripHyphens(SubNonAlnum(named)))

not_slug_vars == <<extract_vars, request_vars, detect_vars, cache_vars, adr_vars, validate_vars, promote_vars, youtube_vars, scanner_vars, supersede_vars>>

\* slug = normalize_slug(args.slug)
NormalizeSlug ==
    /\ slug_calls = 0
    /\ slug_once' = normalize_slug(topic)
    /\ slug_calls' = 1
    /\ UNCHANGED <<topic, slug_twice, not_slug_vars>>

\* the slug is given to a command again: find_by_alias(slug), cmd_get(slug)
NormalizeSlugAgain ==
    /\ slug_calls = 1
    /\ slug_twice' = normalize_slug(slug_once)
    /\ slug_calls' = 2
    /\ UNCHANGED <<topic, slug_once, not_slug_vars>>

InitSlug ==
    /\ topic \in Topics
    /\ slug_once = <<>>
    /\ slug_twice = <<>>
    /\ slug_calls = 0
    /\ ExtractIdle
    /\ RequestIdle
    /\ ToolsIdleBut("slug")

NextSlug ==
    \/ NormalizeSlug
    \/ NormalizeSlugAgain

SpecSlug == InitSlug /\ [][NextSlug]_vars

\* C16: normalize_slug is idempotent: normalize_slug(normalize_slug(x)) ==
\* normalize_slug(x) for every string x, also when x contains 'c#' or 'c++' and
\* when x normalizes to the empty string.
C16_NormalizeSlugIdempotent ==
    slug_calls = 2 => slug_twice = slug_once

\* a topic with C# and C++ in it
C16_Witness ==
    /\ slug_calls = 2
    /\ topic = <<"C", "#", " ", "+", "+">>
    /\ slug_once = <<"c", "s", "h", "a", "r", "p">>

\* a topic that normalizes to the empty string
C16_WitnessEmpty ==
    /\ slug_calls = 2
    /\ topic = <<"#", " ", "-">>
    /\ slug_once = <<>>

(***************************************************************************)
(* Part 7: managing-adrs, adr_create.py. File names and titles are         *)
(* sequences of characters.                                                *)
(***************************************************************************)
DigitChars == <<"0", "1", "2", "3", "4", "5", "6", "7", "8", "9">>
IsDigit(c) == c \in Range(DigitChars)
DigitValue(c) == (CHOOSE k \in DOMAIN DigitChars : DigitChars[k] = c) - 1

\* str(number)
RECURSIVE Decimal(_)
Decimal(n) ==
    IF n < 10 THEN <<DigitChars[n + 1]>>
    ELSE Decimal(n \div 10) \o <<DigitChars[(n % 10) + 1]>>

\* f"{number:0{padding}d}": zeros in front up to the width
RECURSIVE ZeroPad(_, _)
ZeroPad(digits, width) ==
    IF Len(digits) >= width THEN digits ELSE ZeroPad(<<"0">> \o digits, width)

\* int(num_str)
RECURSIVE ParseInt(_)
ParseInt(digits) ==
    IF digits = <<>> THEN 0
    ELSE 10 * ParseInt(SubSeq(digits, 1, Len(digits) - 1))
            + DigitValue(digits[Len(digits)])

\* str.lower() on the characters of names and titles
AdrLowerChar(c) ==
    CASE c = "A" -> "a" [] c = "D" -> "d" [] c = "R" -> "r" [] c = "U" -> "u"
      [] c = "M" -> "m" [] c = "E" -> "e" [] OTHER -> c
AdrLower(str) == [k \in DOMAIN str |-> AdrLowerChar(str[k])]

EndsWith(str, suffix) ==
    /\ Len(str) >= Len(suffix)
    /\ SubSeq(str, Len(str) - Len(suffix) + 1, Len(str)) = suffix
StartsWith(str, prefix) ==
    /\ Len(str) >= Len(prefix)
    /\ SubSeq(str, 1, Len(prefix)) = prefix
Drop(str, n) == SubSeq(str, n + 1, Len(str))

\* the longest run of digits the string starts with
RECURSIVE LeadingDigits(_)
LeadingDigits(str) ==
    IF str # <<>> /\ IsDigit(Head(str))
    THEN <<Head(str)>> \o LeadingDigits(Tail(str)) ELSE <<>>

\* adr_dir.glob('*.md')
GlobMd(dir) == {name \in dir : EndsWith(name, <<".", "m", "d">>)}

\* re.compile(r'^ADR-(\d+)-', re.IGNORECASE).match(name): group 1, or <<>>
MatchAdrPrefixed(name) ==
    IF StartsWith(AdrLower(name), <<"a", "d", "r", "-">>)
    THEN LET digits == LeadingDigits(Drop(name, 4))
         IN  IF digits # <<>> /\ StartsWith(Drop(name, 4 + Len(digits)), <<"-">>)
             THEN digits ELSE <<>>
    ELSE <<>>

\* re.compile(r'^(\d+)-').match(name): group 1, or <<>>
MatchNumbered(name) ==
    LET digits == LeadingDigits(name)
    IN  IF digits # <<>> /\ StartsWith(Drop(name, Len(digits)), <<"-">>)
        THEN digits ELSE <<>>

\* re.compile(r'^(?:ADR-)?(\d+)-.*\.md$', re.IGNORECASE).match(name): group 1
MatchAdrFile(name) ==
    LET digits == IF MatchAdrPrefixed(name) # <<>> THEN MatchAdrPrefixed(name)
                  ELSE MatchNumbered(name)
        head == IF MatchAdrPrefixed(name) # <<>> THEN 4 ELSE 0
    IN  IF /\ digits # <<>>
           /\ EndsWith(AdrLower(Drop(name, head + Len(digits) + 1)),
                       <<".", "m", "d">>)
        THEN digits ELSE <<>>

SetMax(S) == CHOOSE m \in S : \A n \in S : n <= m

\* a bug: the prefix is matched with its case
get_next_adr_number_case_sensitive(dir) ==
    LET matched == {name \in GlobMd(dir) :
                       /\ MatchAdrFile(name) # <<>>
                       /\ ~StartsWith(name, <<"a", "d", "r", "-">>)}
    IN  SetMax({0} \cup {ParseInt(MatchAdrFile(name)) : name \in matched}) + 1

get_next_adr_number(dir) ==
    LET matched == {name \in GlobMd(dir) : MatchAdrFile(name) # <<>>}
    IN  SetMax({0} \cup {ParseInt(MatchAdrFile(name)) : name \in matched}) + 1

\* the styles detect_numbering_style can return: that of the first file
\* glob() gives that matches a pattern; the order of glob() is the file
\* system's
StyleOf(name) ==
    IF MatchAdrPrefixed(name) # <<>>
    THEN [padding |-> Len(MatchAdrPrefixed(name)), has_prefix |-> TRUE]
    ELSE [padding |-> Len(MatchNumbered(name)), has_prefix |-> FALSE]

\* a bug: the padding is the width of the number, without its zeros
detect_numbering_style_no_zeros(dir) ==
    LET styled == {name \in GlobMd(dir) :
                      /\ AdrLower(name) \notin
                            {<<"r", "e", "a", "d", "m", "e", ".", "m", "d">>,
                             <<"t", "e", "m", "p", "l", "a", "t", "e", ".", "m", "d">>}
                      /\ (MatchAdrPrefixed(name) # <<>> \/ MatchNumbered(name) # <<>>)}
    IN  IF styled = {} THEN {[padding |-> 4, has_prefix |-> FALSE]}
        ELSE {[StyleOf(name) EXCEPT !.padding =
                  Len(Decimal(ParseInt(IF MatchAdrPrefixed(name) # <<>>
                                       THEN MatchAdrPrefixed(name)
                                       ELSE MatchNumbered(name))))] :
                 name \in styled}

detect_numbering_style(dir) ==
    LET styled == {name \in GlobMd(dir) :
                      /\ AdrLower(name) \notin
                            {<<"r", "e", "a", "d", "m", "e", ".", "m", "d">>,
                             <<"t", "e", "m", "p", "l", "a", "t", "e", ".", "m", "d">>}
                      /\ (MatchAdrPrefixed(name) # <<>> \/ MatchNumbered(name) # <<>>)}
    IN  IF styled = {} THEN {[padding |-> 4, has_prefix |-> FALSE]}
        ELSE {StyleOf(name) : name \in styled}

\* the characters of titles: letters and digits, white space, the hyphen,
\* and characters that are none of these
TitleAlnum == {"a", "d", "r", "u", "s", "e", "x", "7"}
TitleSpace == {" "}

\* re.sub(r'[^a-z0-9\s-]', '', slug)
KeepSlugChars(str) ==
    LET keep == {k \in DOMAIN str : str[k] \in TitleAlnum \cup TitleSpace \cup {"-"}}
        RECURSIVE Pick(_)
        Pick(k) == IF k > Len(str) THEN <<>>
                   ELSE IF k \in keep THEN <<str[k]>> \o Pick(k + 1)
                   ELSE Pick(k + 1)
    IN  Pick(1)

\* re.sub(r'\s+', '-', slug)
RECURSIVE SubSpaces(_)
SubSpaces(str) ==
    IF str = <<>> THEN <<>>
    ELSE IF Head(str) \in TitleSpace
         THEN <<"-">> \o SubSpaces(DropWhileIn(str, TitleSpace))
         ELSE <<Head(str)>> \o SubSpaces(Tail(str))

\* generate_filename(number, title, padding, with_prefix)
generate_filename(number, title, padding, with_prefix) ==
    LET slug == StripHyphens(CollapseHyphens(SubSpaces(KeepSlugChars(AdrLower(title)))))
        numbered == ZeroPad(Decimal(number), padding) \o <<"-">> \o slug
                       \o <<".", "m", "d">>
    IN  IF with_prefix THEN <<"A", "D", "R", "-">> \o numbered ELSE numbered

MaxCreates == 2
MaxNumber == 11
MaxPadding == 2

AdrTitles == {<<"U", "s", "e", " ", "x">>, <<"7", " ", "-", "a">>, <<"?">>}

\* the files a directory can hold at the start, each with the ADR number its
\* author gave it (0: not an ADR)
ExistingFiles ==
    {[name |-> <<"A", "D", "R", "-", "0", "0", "0", "3", "-", "x", ".", "m", "d">>,
      number |-> 3],
     [name |-> <<"a", "d", "r", "-", "1", "2", "-", "x", ".", "m", "d">>,
      number |-> 12],
     [name |-> <<"0", "0", "0", "2", "-", "x", ".", "m", "d">>, number |-> 2],
     [name |-> <<"7", "-", ".", "m", "d">>, number |-> 7],
     [name |-> <<"R", "E", "A", "D", "M", "E", ".", "m", "d">>, number |-> 0],
     [name |-> <<"t", "e", "m", "p", "l", "a", "t", "e", ".", "m", "d">>,
      number |-> 0]}

not_adr_vars == <<extract_vars, request_vars, detect_vars, cache_vars, slug_vars, validate_vars, promote_vars, youtube_vars, scanner_vars, supersede_vars>>

\* create_adr(title, adr_dir)
CreateAdr(title) ==
    /\ fn_args = NoFilenameArgs
    /\ Cardinality({name \in adr_dir : adr_numbers[name] > 0
                       /\ name \notin {f.name : f \in ExistingFiles}}) < MaxCreates
    /\ \E style \in detect_numbering_style(adr_dir) :
          LET number == get_next_adr_number(adr_dir)
              filename == generate_filename(number, title, style.padding,
                                            style.has_prefix)
          IN  /\ adr_dir' = adr_dir \cup {filename}
              /\ adr_numbers' = [name \in adr_dir \cup {filename} |->
                                    IF name = filename THEN number
                                    ELSE adr_numbers[name]]
              /\ adr_last' = [done |-> TRUE, number |-> number,
                              filename |-> filename, before |-> adr_dir,
                              largest |-> SetMax({0} \cup
                                  {adr_numbers[name] : name \in adr_dir})]
    /\ UNCHANGED <<fn_args, fn_detected>>
    /\ UNCHANGED not_adr_vars

InitAdr ==
    /\ ExtractIdle
    /\ RequestIdle
    /\ ToolsIdleBut("adr")
    /\ \E files \in SUBSET ExistingFiles :
          /\ adr_dir = {f.name : f \in files}
          /\ adr_numbers = [name \in {f.name : f \in files} |->
                               (CHOOSE f \in files : f.name = name).number]
    /\ adr_last = NoCreate
    /\ fn_args = NoFilenameArgs
    /\ fn_detected = NotDetected

NextAdr == \E title \in AdrTitles : CreateAdr(title)

SpecAdr == InitAdr /\ [][NextAdr]_vars

\* C17: a create_adr call writes a file whose number is one more than the
\* largest number among the ADR files the directory held before the call (1
\* when it held none), so the number was not in use and the file did not
\* exist before the call.
C17_NextNumberNeverReused ==
    adr_last.done =>
        /\ adr_last.number = adr_last.largest + 1
        /\ adr_last.filename \notin adr_last.before
        /\ adr_last.filename \in adr_dir
        /\ \A name \in adr_last.before : adr_numbers[name] # adr_last.number
        /\ ParseInt(MatchAdrFile(adr_last.filename)) = adr_last.number

C17_Witness ==
    /\ adr_last.done
    /\ adr_last.largest = 13
    /\ Cardinality(adr_last.before) > 2

C17_WitnessEmptyDirectory ==
    /\ adr_last.done
    /\ adr_last.before = {}
    /\ adr_last.number = 1

\* generate_filename(number, title, padding, with_prefix), written to an
\* empty directory
GenerateFilename ==
    /\ fn_args # NoFilenameArgs
    /\ adr_dir = {}
    /\ adr_dir' = {generate_filename(fn_args.number, fn_args.title,
                                     fn_args.padding, fn_args.with_prefix)}
    /\ UNCHANGED <<adr_last, adr_numbers, fn_args, fn_detected>>
    /\ UNCHANGED not_adr_vars

\* detect_numbering_style(adr_dir) and get_next_adr_number(adr_dir)
DetectNumberingStyle ==
    /\ fn_args # NoFilenameArgs
    /\ adr_dir # {}
    /\ ~fn_detected.done
    /\ \E style \in detect_numbering_style(adr_dir) :
          fn_detected' = [done |-> TRUE, padding |-> style.padding,
                          has_prefix |-> style.has_prefix,
                          next |-> get_next_adr_number(adr_dir)]
    /\ UNCHANGED <<adr_dir, adr_last, adr_numbers, fn_args>>
    /\ UNCHANGED not_adr_vars

InitFilename ==
    /\ ExtractIdle
    /\ RequestIdle
    /\ ToolsIdleBut("adr")
    /\ adr_dir = {}
    /\ adr_last = NoCreate
    /\ adr_numbers = <<>>
    /\ fn_args \in [number : 1..MaxNumber, title : AdrTitles,
                    padding : 1..MaxPadding, with_prefix : BOOLEAN]
    /\ fn_detected = NotDetected

NextFilename == GenerateFilename \/ DetectNumberingStyle

SpecFilename == InitFilename /\ [][NextFilename]_vars

RoundTrips ==
    /\ fn_detected.padding = fn_args.padding
    /\ fn_detected.has_prefix = fn_args.with_prefix
    /\ fn_detected.next = fn_args.number + 1

\* C18, as stated: in a directory holding only the generated file,
\* detect_numbering_style returns the padding and the prefix flag the name
\* was generated with and get_next_adr_number returns number + 1, whatever
\* the number, the padding and the title.
C18_FilenameRoundTrips == fn_detected.done => RoundTrips

\* C18, amended: the same when the number has no more digits than the
\* padding; with more digits the detected padding is the number of digits,
\* and the next number and the prefix flag still round-trip.
C18_FilenameRoundTripsWithinPadding ==
    fn_detected.done =>
        /\ fn_detected.has_prefix = fn_args.with_prefix
        /\ fn_detected.next = fn_args.number + 1
        /\ fn_detected.padding = SetMax({fn_args.padding,
                                         Len(Decimal(fn_args.number))})
        /\ Len(Decimal(fn_args.number)) <= fn_args.padding => RoundTrips

C18_Witness ==
    /\ fn_detected.done
    /\ fn_args.number = 7
    /\ fn_args.padding = 2
    /\ fn_args.with_prefix
    /\ fn_args.title = <<"?">>
    /\ RoundTrips

C18_WitnessWide ==
    /\ fn_detected.done
    /\ fn_args.number = 10
    /\ fn_args.padding = 1
    /\ fn_detected.padding = 2

(***************************************************************************)
(* Part 8: create-tutorial, validate_tutorial.py. A file is described by   *)
(* what the validator's searches find in it; chapter times and slugs are   *)
(* sequences of characters. A message is modelled by its kind.             *)
(***************************************************************************)
MaxChapters == 2

ARTICLE_REQUIRED_SECTIONS ==
    <<"H1 title", "Audience metadata", "Language/stack metadata",
      "Section 1: What You'll Build/Learn", "Section 2: Concept Overview",
      "Section 3: Minimal Example", "Section 4: Guided Steps",
      "Challenge section", "Troubleshooting section", "Summary section">>

ARTICLE_RECOMMENDED ==
    <<"Code blocks with language tags", "Tips", "Warnings",
      "Progress checkpoints", "Collapsible solutions", "Expected outputs">>

SCRIPT_REQUIRED_SECTIONS ==
    <<"Hook/Opening", "Agenda", "Main sections", "Call to Action">>

SCRIPT_RECOMMENDED ==
    <<"Timing estimates [MM:SS]", "Visual/stage directions",
      "On-screen text cues">>

SEO_REQUIRED_FIELDS ==
    <<"title", "slug", "description", "keywords", "tags", "reading_time_min",
      "target_audience", "difficulty">>

\* what a validator has when it returns (errors, warnings), or when an
\* exception leaves it
Returned(errors, warnings) ==
    [errors |-> errors, warnings |-> warnings, raised |-> FALSE]
AddError(acc, message) == [acc EXCEPT !.errors = Append(@, message)]
AddWarning(acc, message) == [acc EXCEPT !.warnings = Append(@, message)]
Raise(acc) == [acc EXCEPT !.raised = TRUE]

\* the descriptions of the patterns re.search does not find
Missing(patterns, matched) ==
    SelectSeq(patterns, LAMBDA description : description \notin matched)

\* JSON and YAML values: a string (its characters, or only its length), a
\* number, a list (its length), or no value
Str(chars) == [type |-> "str", s |-> chars, len |-> Len(chars)]
StrOfLen(n) == [type |-> "str", s |-> <<>>, len |-> n]
ListOfLen(n) == [type |-> "list", s |-> <<>>, len |-> n]
Num == [type |-> "num", s |-> <<>>, len |-> 0]
Absent == [type |-> "absent", s |-> <<>>, len |-> 0]

\* str.split(sep)
RECURSIVE Split(_, _)
Split(str, sep) ==
    IF \A k \in DOMAIN str : str[k] # sep THEN <<str>>
    ELSE LET k == CHOOSE i \in DOMAIN str :
                      str[i] = sep /\ \A j \in 1..(i - 1) : str[j] # sep
         IN  <<SubSeq(str, 1, k - 1)>> \o Split(SubSeq(str, k + 1, Len(str)), sep)

AllDigits(str) == \A k \in DOMAIN str : IsDigit(str[k])

\* int(part) raises ValueError
IntRaises(part) == part = <<>> \/ ~AllDigits(part)

\* timing_to_seconds(timing) raises ValueError
timing_to_seconds_raises(timing) ==
    LET parts == Split(timing, ":")
    IN  /\ Len(parts) \in {2, 3}
        /\ \E k \in DOMAIN parts : IntRaises(parts[k])

timing_to_seconds(timing) ==
    LET parts == Split(timing, ":")
    IN  IF Len(parts) = 2
        THEN ParseInt(parts[1]) * 60 + ParseInt(parts[2])
        ELSE IF Len(parts) = 3
        THEN ParseInt(parts[1]) * 3600 + ParseInt(parts[2]) * 60
                + ParseInt(parts[3])
        ELSE 0

\* re.match(r"^\d{1,2}:\d{2}$", time)
MatchesTime(time) ==
    LET parts == Split(time, ":")
    IN  /\ Len(parts) = 2
        /\ Len(parts[1]) \in {1, 2} /\ AllDigits(parts[1])
        /\ Len(parts[2]) = 2 /\ AllDigits(parts[2])

\* re.match(r"^[a-z0-9-]+$", slug)
MatchesSlug(slug) ==
    /\ slug # <<>>
    /\ \A k \in DOMAIN slug : slug[k] \in TitleAlnum \cup {"-"}

\* ---- the files ----
GoodArticle ==
    [readable |-> TRUE,
     required |-> Range(ARTICLE_REQUIRED_SECTIONS),
     recommended |-> Range(ARTICLE_RECOMMENDED),
     untagged_code |-> 0, broken_links |-> 0,
     section_nums |-> <<1, 2, 3>>, word_count |-> 1000]

ArticleFiles ==
    {GoodArticle,
     [GoodArticle EXCEPT !.readable = FALSE],
     [GoodArticle EXCEPT !.required = @ \ {"Summary section"}],
     [GoodArticle EXCEPT !.required = {}, !.word_count = 100],
     [GoodArticle EXCEPT !.recommended = @ \ {"Tips"}],
     [GoodArticle EXCEPT !.untagged_code = 2],
     [GoodArticle EXCEPT !.broken_links = 1],
     [GoodArticle EXCEPT !.section_nums = <<1, 3>>],
     [GoodArticle EXCEPT !.section_nums = <<>>, !.word_count = 6000]}

GoodTimings == <<Str(<<"0", "0", ":", "1", "0">>), Str(<<"0", "1", ":", "3", "0">>)>>

GoodScript ==
    [readable |-> TRUE,
     required |-> Range(SCRIPT_REQUIRED_SECTIONS),
     recommended |-> Range(SCRIPT_RECOMMENDED),
     timings |-> GoodTimings]

ScriptFiles ==
    {GoodScript,
     [GoodScript EXCEPT !.readable = FALSE],
     [GoodScript EXCEPT !.required = @ \ {"Agenda"}],
     [GoodScript EXCEPT !.recommended = @ \ {"Timing estimates [MM:SS]"},
                        !.timings = <<>>],
     [GoodScript EXCEPT !.timings = <<GoodTimings[2], GoodTimings[1]>>]}

TimeValues ==
    {Str(<<"0", "0", ":", "0", "0">>), Str(<<"0", "1", ":", "3", "0">>),
     Str(<<"a", ":", "0", "0">>), Num, Absent}
TitleValues == {StrOfLen(5), StrOfLen(120), Absent}

\* the elements of a chapters array: objects, and values that are not
ChapterValues ==
    {[kind |-> "object", time |-> time, title |-> title] :
        time \in TimeValues, title \in TitleValues}
    \cup {[kind |-> kind, time |-> Absent, title |-> Absent] :
             kind \in {"list", "number"}}

ChapterArrays == UNION {[1..n -> ChapterValues] : n \in 0..MaxChapters}

ChaptersFiles ==
    {[readable |-> FALSE, json |-> "invalid", chapters |-> <<>>],
     [readable |-> TRUE, json |-> "invalid", chapters |-> <<>>],
     [readable |-> TRUE, json |-> "object", chapters |-> <<>>]}
    \cup {[readable |-> TRUE, json |-> "array", chapters |-> chapters] :
             chapters \in ChapterArrays}

GoodSeo ==
    [readable |-> TRUE, yaml |-> "dict",
     fields |-> Range(SEO_REQUIRED_FIELDS),
     title |-> StrOfLen(30), description |-> StrOfLen(100),
     slug |-> Str(<<"a", "-", "7">>), keywords |-> ListOfLen(4),
     tags |-> ListOfLen(8), reading_time_min |-> Num]

SeoFiles ==
    {GoodSeo,
     [GoodSeo EXCEPT !.readable = FALSE],
     [GoodSeo EXCEPT !.yaml = "invalid"],
     [GoodSeo EXCEPT !.yaml = "list"],
     [GoodSeo EXCEPT !.fields = @ \ {"tags", "title"}],
     [GoodSeo EXCEPT !.title = StrOfLen(70), !.description = StrOfLen(10)],
     [GoodSeo EXCEPT !.title = StrOfLen(5), !.slug = Str(<<"A", " ">>)],
     [GoodSeo EXCEPT !.title = Num],
     [GoodSeo EXCEPT !.keywords = StrOfLen(9), !.tags = ListOfLen(2)],
     [GoodSeo EXCEPT !.keywords = ListOfLen(12), !.tags = ListOfLen(30)],
     [GoodSeo EXCEPT !.keywords = ListOfLen(1), !.tags = Str(<<"a">>),
                     !.slug = Num],
     [GoodSeo EXCEPT !.reading_time_min = StrOfLen(1)]}

\* ---- the validators ----
validate_article(file) ==
    IF ~file.readable THEN Returned(<<"File not found">>, <<>>)
    ELSE Returned(
        Missing(ARTICLE_REQUIRED_SECTIONS, file.required),
        Missing(ARTICLE_RECOMMENDED, file.recommended)
        \o (IF file.untagged_code > 0
            THEN <<"code blocks without language tags">> ELSE <<>>)
        \o (IF file.broken_links > 0
            THEN [k \in 1..file.broken_links |-> "Potentially broken internal link"]
            ELSE <<>>)
        \o (IF /\ file.section_nums # <<>>
               /\ file.section_nums # [k \in 1..Len(file.section_nums) |-> k]
            THEN <<"Section numbering is non-sequential">> ELSE <<>>)
        \o (IF file.word_count < 500 THEN <<"Article is quite short">>
            ELSE IF file.word_count > 5000 THEN <<"Article is very long">>
            ELSE <<>>))

validate_video_script(file) ==
    IF ~file.readable THEN Returned(<<"File not found">>, <<>>)
    ELSE Returned(
        Missing(SCRIPT_REQUIRED_SECTIONS, file.required),
        Missing(SCRIPT_RECOMMENDED, file.recommended)
        \o SelectSeq([k \in 1..(IF file.timings = <<>> THEN 0
                                ELSE Len(file.timings) - 1) |->
                        IF timing_to_seconds(file.timings[k].s)
                              >= timing_to_seconds(file.timings[k + 1].s)
                        THEN "Non-sequential timing" ELSE ""],
                     LAMBDA message : message # ""))

\* the body of the loop "for i, chapter in enumerate(chapters)"
CheckChapter(chapter, acc) ==
    IF chapter.kind # "object" THEN AddError(acc, "Chapter is not an object")
    ELSE LET timed ==
                 IF chapter.time = Absent
                 THEN AddError(acc, "Chapter missing 'time' field")
                 ELSE IF chapter.time.type # "str" THEN Raise(acc)
                 ELSE IF ~MatchesTime(chapter.time.s)
                 THEN AddError(acc, "Chapter has invalid time format")
                 ELSE acc
         IN  IF timed.raised THEN timed
             ELSE IF chapter.title = Absent
             THEN AddError(timed, "Chapter missing 'title' field")
             ELSE IF chapter.title.len > 100
             THEN AddWarning(timed, "Chapter title is very long")
             ELSE timed

RECURSIVE CheckChapters(_, _)
CheckChapters(chapters, acc) ==
    IF chapters = <<>> \/ acc.raised THEN acc
    ELSE CheckChapters(Tail(chapters), CheckChapter(Head(chapters), acc))

\* chapter["time"] can be read
HasTime(chapter) == chapter.kind = "object" /\ chapter.time # Absent

\* the loop that fills times: "time" in chapter raises TypeError for a
\* number, timing_to_seconds raises ValueError
RECURSIVE CollectTimes(_)
CollectTimes(chapters) ==
    IF chapters = <<>> THEN [raised |-> FALSE, times |-> <<>>]
    ELSE LET chapter == Head(chapters)
             rest == CollectTimes(Tail(chapters))
         IN  IF chapter.kind = "number" THEN [raised |-> TRUE, times |-> <<>>]
             ELSE IF ~HasTime(chapter) THEN rest
             ELSE IF timing_to_seconds_raises(chapter.time.s)
             THEN [raised |-> TRUE, times |-> <<>>]
             ELSE IF rest.raised THEN rest
             ELSE [raised |-> FALSE,
                   times |-> <<timing_to_seconds(chapter.time.s)>> \o rest.times]

\* the loop "for i in range(len(times) - 1)": its message reads
\* chapters[i]['time'] and chapters[i+1]['time']
RECURSIVE SequentialTimes(_, _, _, _)
SequentialTimes(chapters, times, i, acc) ==
    IF i >= Len(times) \/ acc.raised THEN acc
    ELSE SequentialTimes(chapters, times, i + 1,
            IF times[i] < times[i + 1] THEN acc
            ELSE IF HasTime(chapters[i]) /\ HasTime(chapters[i + 1])
            THEN AddWarning(acc, "Non-sequential chapter times")
            ELSE Raise(acc))

validate_chapters(file) ==
    IF ~file.readable THEN Returned(<<"File not found">>, <<>>)
    ELSE IF file.json = "invalid" THEN Returned(<<"Invalid JSON">>, <<>>)
    ELSE IF file.json # "array"
    THEN Returned(<<"Chapters must be a JSON array">>, <<>>)
    ELSE IF file.chapters = <<>>
    THEN Returned(<<"Chapters array is empty">>, <<>>)
    ELSE LET checked == CheckChapters(file.chapters, Returned(<<>>, <<>>))
             collected == CollectTimes(file.chapters)
             ordered == SequentialTimes(file.chapters, collected.times, 1,
                                        checked)
         IN  IF checked.raised THEN checked
             ELSE IF collected.raised THEN Raise(checked)
             ELSE IF ordered.raised THEN ordered
             ELSE IF collected.times # <<>> /\ collected.times[1] # 0
             THEN IF HasTime(file.chapters[1])
                  THEN AddWarning(ordered, "First chapter should start at 00:00")
                  ELSE Raise(ordered)
             ELSE ordered

\* the checks of validate_seo on one field each; len() and re.match raise
\* TypeError on a number
SeoTitle(file, acc) ==
    IF acc.raised \/ "title" \notin file.fields THEN acc
    ELSE IF file.title.type = "num" THEN Raise(acc)
    ELSE IF file.title.len > 60 THEN AddWarning(acc, "Title is too long")
    ELSE IF file.title.len < 10 THEN AddWarning(acc, "Title is very short")
    ELSE acc

SeoDescription(file, acc) ==
    IF acc.raised \/ "description" \notin file.fields THEN acc
    ELSE IF file.description.type = "num" THEN Raise(acc)
    ELSE IF file.description.len < 50 \/ file.description.len > 160
    THEN AddWarning(acc, "Description length outside optimal range")
    ELSE acc

SeoSlug(file, acc) ==
    IF acc.raised \/ "slug" \notin file.fields THEN acc
    ELSE IF file.slug.type # "str" THEN Raise(acc)
    ELSE IF ~MatchesSlug(file.slug.s)
    THEN AddWarning(acc, "Slug contains non-URL-friendly characters")
    ELSE acc

SeoKeywords(file, acc) ==
    IF acc.raised \/ "keywords" \notin file.fields THEN acc
    ELSE IF file.keywords.type # "list"
    THEN AddError(acc, "Keywords must be an array")
    ELSE IF file.keywords.len < 3 THEN AddWarning(acc, "Only few keywords")
    ELSE IF file.keywords.len > 10 THEN AddWarning(acc, "Too many keywords")
    ELSE acc

SeoTags(file, acc) ==
    IF acc.raised \/ "tags" \notin file.fields THEN acc
    ELSE IF file.tags.type # "list" THEN AddError(acc, "Tags must be an array")
    ELSE IF file.tags.len < 5 THEN AddWarning(acc, "Only few tags")
    ELSE IF file.tags.len > 20 THEN AddWarning(acc, "Too many tags")
    ELSE acc

SeoReadingTime(file, acc) ==
    IF acc.raised \/ "reading_time_min" \notin file.fields THEN acc
    ELSE IF file.reading_time_min.type # "num"
    THEN AddError(acc, "reading_time_min must be a number")
    ELSE acc

validate_seo(file) ==
    IF ~file.readable THEN Returned(<<"File not found">>, <<>>)
    ELSE IF file.yaml = "invalid" THEN Returned(<<"Invalid YAML">>, <<>>)
    ELSE IF file.yaml # "dict"
    THEN Returned(<<"SEO file must be a YAML object">>, <<>>)
    ELSE SeoReadingTime(file, SeoTags(file, SeoKeywords(file, SeoSlug(file,
            SeoDescription(file, SeoTitle(file,
                Returned(Missing(SEO_REQUIRED_FIELDS, file.fields), <<>>)))))))

\* ---- main() ----
not_validate_vars ==
    <<extract_vars, request_vars, detect_vars, cache_vars, slug_vars, adr_vars,
      promote_vars, youtube_vars, scanner_vars, supersede_vars>>

\* len(sys.argv) < 2: the usage text, sys.exit(1)
Usage ==
    /\ vt_pc = "article"
    /\ argc < 2
    /\ vt_pc' = "exited"
    /\ exit_code' = 1
    /\ UNCHANGED <<argc, all_errors, all_warnings, found>>
    /\ UNCHANGED not_validate_vars

\* main() takes what a validator returns, or ends with the traceback of
\* the exception the validator raises: the interpreter's exit status is 1
Extend(checked, files_so_far, then) ==
    /\ found' = [errors |-> found.errors \/ checked.errors # <<>>,
                 warnings |-> found.warnings \/ checked.warnings # <<>>]
    /\ IF checked.raised
       THEN /\ vt_pc' = "exited"
            /\ exit_code' = 1
            /\ UNCHANGED <<all_errors, all_warnings>>
       ELSE /\ all_errors' = all_errors \o checked.errors
            /\ all_warnings' = all_warnings \o checked.warnings
            /\ vt_pc' = IF argc >= files_so_far + 2 THEN then ELSE "summary"
            /\ UNCHANGED exit_code
    /\ UNCHANGED argc
    /\ UNCHANGED not_validate_vars

ValidateArticle ==
    /\ vt_pc = "article"
    /\ argc >= 2
    /\ \E file \in ArticleFiles : Extend(validate_article(file), 1, "script")

ValidateVideoScript ==
    /\ vt_pc = "script"
    /\ \E file \in ScriptFiles :
          Extend(validate_video_script(file), 2, "chapters")

ValidateChapters ==
    /\ vt_pc = "chapters"
    /\ \E file \in ChaptersFiles : Extend(validate_chapters(file), 3, "seo")

ValidateSeo ==
    /\ vt_pc = "seo"
    /\ \E file \in SeoFiles : Extend(validate_seo(file), 4, "summary")

Summary ==
    /\ vt_pc = "summary"
    /\ vt_pc' = "exited"
    /\ exit_code' = IF all_errors # <<>> THEN 2
                    ELSE IF all_warnings # <<>> THEN 1 ELSE 0
    /\ UNCHANGED <<argc, all_errors, all_warnings, found>>
    /\ UNCHANGED not_validate_vars

InitValidate ==
    /\ ExtractIdle
    /\ RequestIdle
    /\ ToolsIdleBut("validate")
    /\ argc \in 1..5
    /\ vt_pc = "article"
    /\ all_errors = <<>>
    /\ all_warnings = <<>>
    /\ exit_code = -1
    /\ found = [errors |-> FALSE, warnings |-> FALSE]

NextValidate ==
    \/ Usage
    \/ ValidateArticle
    \/ ValidateVideoScript
    \/ ValidateChapters
    \/ ValidateSeo
    \/ Summary

SpecValidate == InitValidate /\ [][NextValidate]_vars

\* C19: with at least one file argument the process exits with 2 exactly
\* when a validated file produced an error, with 1 exactly when none
\* produced an error and one produced a warning, and with 0 exactly when
\* there are neither errors nor warnings.
C19_ExitCodes ==
    (vt_pc = "exited" /\ argc >= 2) =>
        /\ exit_code = 2 <=> found.errors
        /\ exit_code = 1 <=> (~found.errors /\ found.warnings)
        /\ exit_code = 0 <=> (~found.errors /\ ~found.warnings)

\* the exit codes are as C19 says whenever main() reaches its summary
C19_ExitCodesAtSummary ==
    (vt_pc = "exited" /\ argc >= 2 /\ exit_code # 1) =>
        /\ exit_code = 2 <=> all_errors # <<>>
        /\ exit_code = 0 <=> (all_errors = <<>> /\ all_warnings = <<>>)

(***************************************************************************)
(* Part 9: deep-research, promote.py. A text is a sequence of tokens: the  *)
(* four markers, words, blanks and line ends.                              *)
(***************************************************************************)
MaxContentLen == 2
MaxPromotes == 2

AUTO_START == "<!-- AUTO-GENERATED: Start -->"
AUTO_END == "<!-- AUTO-GENERATED: End -->"
TEAM_START == "<!-- TEAM-NOTES: Start -->"
TEAM_END == "<!-- TEAM-NOTES: End -->"
TEAM_NOTES_TEMPLATE == <<"\n", "## Team Context", "\n">>

PromotedSlug == "ddd"
Whitespace == {" ", "\n"}

\* what a research can put in the cache, and what a team can write
ContentTokens == {"a", " ", TEAM_START, TEAM_END}
CachedContents == UNION {[1..n -> ContentTokens] : n \in 0..MaxContentLen}
CachedTitles == {"T", "U"}
TeamNotes == {<<>>, <<"\n", "n", "\n">>}

\* str.strip()
Strip(text) ==
    Reverse(DropWhileIn(Reverse(DropWhileIn(text, Whitespace)), Whitespace))

\* the positions of a token in a text
Positions(text, token) == {k \in DOMAIN text : text[k] = token}

SetMin(S) == CHOOSE m \in S : \A n \in S : m <= n

\* pattern.search(content) of extract_team_notes: the first TEAM_START
\* and the first TEAM_END after it
extract_team_notes(content) ==
    LET starts == Positions(content, TEAM_START)
    IN  IF starts = {} THEN [found |-> FALSE, notes |-> <<>>]
        ELSE LET start == SetMin(starts)
                 ends == {k \in Positions(content, TEAM_END) : k > start}
             IN  IF ends = {} THEN [found |-> FALSE, notes |-> <<>>]
                 ELSE [found |-> TRUE,
                       notes |-> SubSeq(content, start + 1, SetMin(ends) - 1)]

\* the frontmatter, by the title it shows
Frontmatter(metadata) == <<"---", "\n", metadata.title, "\n", "---", "\n", "\n">>

build_promoted_content(metadata, auto_content, team_notes) ==
    Frontmatter(metadata)
    \o <<AUTO_START, "\n">> \o Strip(auto_content) \o <<"\n">>
    \o <<AUTO_END, "\n", "\n">>
    \o <<TEAM_START>>
    \o (IF team_notes.found THEN team_notes.notes ELSE TEAM_NOTES_TEMPLATE)
    \o <<TEAM_END, "\n">>

\* update_readme_index(docs_dir, slug, title): the row of the slug is
\* rewritten, or added after the last row
update_readme_index(rows, slug, title) ==
    IF \E k \in DOMAIN rows : rows[k].slug = slug
    THEN [k \in DOMAIN rows |->
             IF rows[k].slug = slug THEN [slug |-> slug, title |-> title]
             ELSE rows[k]]
    ELSE Append(rows, [slug |-> slug, title |-> title])

not_promote_vars ==
    <<extract_vars, request_vars, detect_vars, cache_vars, slug_vars, adr_vars,
      validate_vars, youtube_vars, scanner_vars, supersede_vars>>

\* the cache entry of the slug is written: a first or a new research
PutResearch(title, content) ==
    /\ pr_entry' = [exists |-> TRUE, title |-> title, content |-> content]
    /\ pr_last' = [NoPromote EXCEPT !.calls = pr_last.calls]
    /\ UNCHANGED <<pr_file, pr_readme, pr_notes>>
    /\ UNCHANGED not_promote_vars

\* the team edits its section of the promoted file
EditTeamNotes(notes) ==
    /\ pr_file.exists
    /\ notes # pr_notes
    /\ pr_file' = [pr_file EXCEPT !.text =
          SubSeq(@, 1, Len(@) - Len(pr_notes) - 2) \o notes \o <<TEAM_END, "\n">>]
    /\ pr_notes' = notes
    /\ pr_last' = [NoPromote EXCEPT !.calls = pr_last.calls]
    /\ UNCHANGED <<pr_entry, pr_readme>>
    /\ UNCHANGED not_promote_vars

\* promote(slug, output_dir, refresh)
Promote(refresh) ==
    /\ pr_last.calls < MaxPromotes
    /\ IF ~pr_entry.exists
       THEN /\ pr_last' = [done |-> TRUE, refresh |-> refresh,
                           success |-> FALSE, before |-> pr_file,
                           content |-> <<>>, calls |-> pr_last.calls + 1]
            /\ UNCHANGED <<pr_file, pr_readme, pr_notes>>
       ELSE LET team_notes == IF pr_file.exists /\ refresh
                              THEN extract_team_notes(pr_file.text)
                              ELSE [found |-> FALSE, notes |-> <<>>]
                content == build_promoted_content(pr_entry, pr_entry.content,
                                                  team_notes)
            IN  /\ pr_file' = [exists |-> TRUE, text |-> content]
                /\ pr_readme' = update_readme_index(pr_readme, PromotedSlug,
                                                    pr_entry.title)
                /\ pr_notes' = IF team_notes.found THEN team_notes.notes
                               ELSE TEAM_NOTES_TEMPLATE
                /\ pr_last' = [done |-> TRUE, refresh |-> refresh,
                               success |-> TRUE, before |-> pr_file,
                               content |-> pr_entry.content,
                               calls |-> pr_last.calls + 1]
    /\ UNCHANGED pr_entry
    /\ UNCHANGED not_promote_vars

InitPromote ==
    /\ ExtractIdle
    /\ RequestIdle
    /\ ToolsIdleBut("promote")
    /\ pr_entry = [exists |-> FALSE, title |-> "", content |-> <<>>]
    /\ pr_file = NoFile
    /\ pr_readme = <<>>
    /\ pr_notes = <<>>
    /\ pr_last = NoPromote

NextPromote ==
    \/ \E title \in CachedTitles, content \in CachedContents :
          PutResearch(title, content)
    \/ \E notes \in TeamNotes : EditTeamNotes(notes)
    \/ \E refresh \in BOOLEAN : Promote(refresh)

SpecPromote == InitPromote /\ [][NextPromote]_vars

\* the text between AUTO_START and AUTO_END
AutoSection(text) ==
    SubSeq(text, SetMin(Positions(text, AUTO_START)) + 1,
           SetMin(Positions(text, AUTO_END)) - 1)

\* a refresh of a file that has team notes
Refreshed ==
    /\ pr_last.done
    /\ pr_last.refresh
    /\ pr_last.success
    /\ pr_last.before.exists
    /\ extract_team_notes(pr_last.before.text).found

\* C20: after promote(slug, refresh=True) on a promoted slug the text
\* between the TEAM-NOTES markers of the file is the text that was between
\* them before the call, whatever the cached content is, and the
\* auto-generated section holds the current cache content.
C20_RefreshPreservesTeamNotes ==
    Refreshed =>
        /\ extract_team_notes(pr_file.text)
              = extract_team_notes(pr_last.before.text)
        /\ AutoSection(pr_file.text)
              = <<"\n">> \o Strip(pr_last.content) \o <<"\n">>

\* the same for the section the team writes in: a refresh leaves the notes
\* of the team where they were
C20_TeamSectionKept ==
    [][(pr_last'.done /\ pr_last'.refresh /\ pr_file.exists)
          => pr_notes' = pr_notes]_vars

\* what does hold: the refresh preserves the notes when neither the file's
\* auto-generated section nor the cached content holds a TEAM-NOTES marker
C20_PreservedWithoutMarkersInContent ==
    (/\ Refreshed
     /\ Positions(pr_last.content, TEAM_START) = {}
     /\ Positions(AutoSection(pr_last.before.text), TEAM_START) = {}) =>
        /\ extract_team_notes(pr_file.text)
              = extract_team_notes(pr_last.before.text)
        /\ extract_team_notes(pr_file.text).notes = pr_notes

(***************************************************************************)
(* Part 10: extract-youtube, youtube_client.py. A URL is its host, the     *)
(* segments of its path and its v and list parameters; a segment or a      *)
(* parameter value is its text, its length and the number of characters    *)
(* of [A-Za-z0-9_-] it starts with.                                        *)
(***************************************************************************)
MaxSegments == 2

VideoIdLen == 11

Segment(text, len, valid) == [text |-> text, len |-> len, valid |-> valid]

PathSegments ==
    {Segment("embed", 5, 5), Segment("v", 1, 1), Segment("shorts", 6, 6),
     Segment("watch", 5, 5), Segment("abcdefghijk", 11, 11),
     Segment("abcdefghijkl", 12, 12), Segment("abcdefghij", 10, 10),
     Segment("abc.efghijk", 11, 3)}

\* parse_qs drops a parameter with a blank value: NoSegment is a parameter
\* that is blank or not there
VideoParams ==
    {NoSegment, Segment("abcdefghijk", 11, 11), Segment("abcdefghij", 10, 10),
     Segment("abc.efghijk", 11, 3)}
ListParams == {NoSegment, Segment("PL", 2, 2)}

Urls ==
    [netloc : {"www.youtube.com", "youtu.be"},
     path : UNION {[1..n -> PathSegments] : n \in 0..MaxSegments},
     v : VideoParams, list : ListParams]

\* '/word/' in parsed.path
InPath(path, words) ==
    \E k \in 1..(Len(path) - 1) : path[k].text \in words

\* re.search(r'/(words)/([A-Za-z0-9_-]{11})', parsed.path): the places where
\* it can match
Matches(path, words) ==
    {k \in 1..(Len(path) - 1) :
        path[k].text \in words /\ path[k + 1].valid >= VideoIdLen}

\* the eleven characters the second group of the leftmost match holds
Group2(path, words) ==
    LET k == CHOOSE i \in Matches(path, words) :
                 \A j \in Matches(path, words) : i <= j
    IN  Segment(path[k + 1].text, VideoIdLen, VideoIdLen)

\* VIDEO_ID_PATTERN.fullmatch(video_id), of a video_id that is not empty
FullMatch(video_id) ==
    video_id.len = VideoIdLen /\ video_id.valid = VideoIdLen

\* the branches of parse_url that look for a video id: the id, NoSegment
\* for None or '', or the exception of match.group(2) on a pattern that has
\* one group
ExtractVideoId(url) ==
    IF url.v # NoSegment THEN [raised |-> FALSE, video_id |-> url.v]
    ELSE IF url.netloc = "youtu.be"
    THEN [raised |-> FALSE,
          video_id |-> IF url.path = <<>> THEN NoSegment ELSE url.path[1]]
    ELSE IF InPath(url.path, {"embed", "v"})
    THEN [raised |-> FALSE,
          video_id |-> IF Matches(url.path, {"embed", "v"}) # {}
                       THEN Group2(url.path, {"embed", "v"}) ELSE NoSegment]
    ELSE IF InPath(url.path, {"shorts"})
    THEN [raised |-> Matches(url.path, {"shorts"}) # {}, video_id |-> NoSegment]
    ELSE [raised |-> FALSE, video_id |-> NoSegment]

parse_url(url) ==
    LET playlist == url.list # NoSegment
        extracted == ExtractVideoId(url)
        video == extracted.video_id # NoSegment /\ FullMatch(extracted.video_id)
    IN  IF extracted.raised
        THEN [NotParsed EXCEPT !.outcome = "IndexError"]
        ELSE IF ~playlist /\ ~video
        THEN [NotParsed EXCEPT !.outcome = "ValueError"]
        ELSE [outcome |-> "returned",
              type |-> IF playlist THEN "playlist" ELSE "video",
              video_id |-> IF video THEN extracted.video_id ELSE NoSegment,
              playlist_id |-> url.list]

not_youtube_vars ==
    <<extract_vars, request_vars, detect_vars, cache_vars, slug_vars, adr_vars,
      validate_vars, promote_vars, scanner_vars, supersede_vars>>

\* YouTubeURLParser.parse_url(url)
ParseUrl ==
    /\ yt_result = NotParsed
    /\ yt_result' = parse_url(yt_url)
    /\ UNCHANGED yt_url
    /\ UNCHANGED not_youtube_vars

InitParseUrl ==
    /\ ExtractIdle
    /\ RequestIdle
    /\ ToolsIdleBut("youtube")
    /\ yt_url \in Urls
    /\ yt_result = NotParsed

NextParseUrl == ParseUrl

SpecParseUrl == InitParseUrl /\ [][NextParseUrl]_vars

\* the documented forms: a list parameter, or a video id of 11 characters
\* in watch?v=ID, youtu.be/ID, /embed/ID, /v/ID or /shorts/ID
DocumentedForm(url) ==
    \/ url.list # NoSegment
    \/ FullMatch(url.v)
    \/ url.v = NoSegment /\ url.netloc = "youtu.be" /\ url.path # <<>>
          /\ FullMatch(url.path[1])
    \/ /\ url.v = NoSegment
       /\ url.netloc # "youtu.be"
       /\ Len(url.path) = 2
       /\ url.path[1].text \in {"embed", "v", "shorts"}
       /\ FullMatch(url.path[2])

\* C21: parse_url has two outcomes: it returns a result of type 'video' or
\* 'playlist', which it does for every documented URL form, or it raises
\* ValueError when no video or playlist id can be extracted.
C21_VideoPlaylistOrValueError ==
    yt_result # NotParsed =>
        /\ yt_result.outcome \in {"returned", "ValueError"}
        /\ yt_result.outcome = "returned"
              => yt_result.type \in {"video", "playlist"}
        /\ DocumentedForm(yt_url) => yt_result.outcome = "returned"

\* the other forms behave as C21 says
C21_HoldsButForShorts ==
    (yt_result # NotParsed /\ ~InPath(yt_url.path, {"shorts"})) =>
        /\ yt_result.outcome \in {"returned", "ValueError"}
        /\ yt_result.outcome = "returned"
              => yt_result.type \in {"video", "playlist"}
        /\ DocumentedForm(yt_url) => yt_result.outcome = "returned"

(***************************************************************************)
(* Part 11: spring-boot-scanner, detect_patterns.py. A source file is the  *)
(* set of skills whose patterns it holds and the escalation patterns it    *)
(* holds.                                                                  *)
(***************************************************************************)
MaxFiles == 11

\* the keys of SKILL_PATTERNS
SKILL_PATTERNS ==
    {"spring-boot-web-api", "spring-boot-data-ddd", "spring-boot-security",
     "spring-boot-testing", "spring-boot-modulith",
     "spring-boot-observability", "domain-driven-design"}

LOW_RISK_SKILLS ==
    {"spring-boot-web-api", "spring-boot-data-ddd", "domain-driven-design",
     "spring-boot-modulith", "spring-boot-observability"}

HIGH_RISK_SKILLS ==
    {"spring-boot-security", "spring-boot-testing", "spring-boot-verify"}

\* what scan_file finds in a file
scan_file(content) ==
    [detected_skills |-> content.annotations \cap SKILL_PATTERNS,
     escalations |-> content.escalations]

SourceFiles ==
    {[annotations |-> {}, escalations |-> {}],
     [annotations |-> {"spring-boot-web-api"}, escalations |-> {}],
     [annotations |-> {"spring-boot-security"}, escalations |-> {"javax"}],
     [annotations |-> {"spring-boot-testing", "spring-boot-verify"},
      escalations |-> {}],
     [annotations |-> SKILL_PATTERNS, escalations |-> {"javax"}]}

\* generate_routing(skill_summary, escalations)
generate_routing(skill_summary, escalations) ==
    LET low_risk == skill_summary.low_risk
        high_risk == skill_summary.high_risk
        total_files == Cardinality(DOMAIN skill_summary.files_by_skill)
        delegate == total_files > 10 \/ Cardinality(high_risk) > 2
    IN  [done |-> TRUE,
         auto_invoke |-> low_risk,
         require_confirmation |-> high_risk,
         warnings |-> escalations,
         delegate_to_agent |-> delegate,
         recommended_action |->
             IF delegate THEN "Delegate to spring-boot-reviewer agent"
             ELSE IF high_risk # {} THEN "Request confirmation before loading"
             ELSE IF low_risk # {} THEN "Auto-invoke guidance"
             ELSE "No Spring Boot patterns detected"]

not_scanner_vars ==
    <<extract_vars, request_vars, detect_vars, cache_vars, slug_vars, adr_vars,
      validate_vars, promote_vars, youtube_vars, supersede_vars>>

\* the body of scan_directory's loop "for source_file in all_files"
ScanFile(content) ==
    /\ ~routing.done
    /\ files_scanned < MaxFiles
    /\ LET file_result == scan_file(content)
       IN  /\ files_scanned' = files_scanned + 1
           /\ files_with_patterns' =
                 IF file_result.detected_skills # {}
                 THEN files_with_patterns + 1 ELSE files_with_patterns
           /\ files_by_skill' =
                 [skill \in DOMAIN files_by_skill \cup file_result.detected_skills |->
                     (IF skill \in DOMAIN files_by_skill
                      THEN files_by_skill[skill] ELSE 0)
                     + (IF skill \in file_result.detected_skills THEN 1 ELSE 0)]
           /\ all_escalations' = all_escalations \cup file_result.escalations
    /\ UNCHANGED routing
    /\ UNCHANGED not_scanner_vars

\* the end of scan_directory: the summary and generate_routing
BuildSummary ==
    /\ ~routing.done
    /\ LET all_skills == DOMAIN files_by_skill
           skill_summary ==
               [detected |-> all_skills,
                files_by_skill |-> files_by_skill,
                low_risk |-> all_skills \cap LOW_RISK_SKILLS,
                high_risk |-> all_skills \cap HIGH_RISK_SKILLS]
       IN  routing' = generate_routing(skill_summary, all_escalations)
    /\ UNCHANGED <<files_scanned, files_with_patterns, files_by_skill,
                   all_escalations>>
    /\ UNCHANGED not_scanner_vars

InitScan ==
    /\ ExtractIdle
    /\ RequestIdle
    /\ ToolsIdleBut("scanner")
    /\ files_scanned = 0
    /\ files_with_patterns = 0
    /\ files_by_skill = <<>>
    /\ all_escalations = {}
    /\ routing = NoRouting

NextScan ==
    \/ \E content \in SourceFiles : ScanFile(content)
    \/ BuildSummary

SpecScan == InitScan /\ [][NextScan]_vars

\* C22: delegate_to_agent is true exactly when patterns were detected in
\* more than 10 source files or more than 2 high-risk skills were detected.
C22_DelegateToAgent ==
    routing.done =>
        (routing.delegate_to_agent <=>
            (files_with_patterns > 10
                \/ Cardinality(routing.require_confirmation) > 2))

\* what the code computes: the number of detected skills, never above the
\* seven of SKILL_PATTERNS, of which two are high-risk
C22_NeverDelegates == ~routing.delegate_to_agent

(***************************************************************************)
(* Part 12: managing-adrs, adr_supersede.py. A file name is a sequence of  *)
(* characters. An ADR file is a sequence of lines, each given by its kind: *)
(* the "## Status" heading, another line that starts with "#", an empty    *)
(* line, or a line of text (lines of white space only, and text that holds *)
(* a "#", are not modelled). A file's lines are drawn when it is first     *)
(* read.                                                                   *)
(***************************************************************************)
MaxLines == 3

Line(kind) == [kind |-> kind, ref |-> <<>>]
RefLine(kind, ref) == [kind |-> kind, ref |-> ref]

\* the lines [^\n#]+ matches from their first character
TextKinds == {"text", "superseded", "supersedes"}

AdrContents ==
    UNION {[1..n -> {Line(k) : k \in {"status", "heading", "blank", "text"}}] :
              n \in 0..MaxLines}

\* a file that exists and has not been read yet
Unread == <<Line("unread")>>

NoPath == <<>>

Name5 == <<"0", "0", "0", "5", "-", "a", ".", "m", "d">>
Name12 == <<"A", "D", "R", "-", "0", "1", "2", "-", "b", ".", "m", "d">>
Name125 == <<"0", "1", "2", "5", "-", "c", ".", "m", "d">>

\* re.compile(rf'^(?:ADR-)?0*{number}-.*\.md$', re.IGNORECASE).match(name)
MatchesNumber(name, number) ==
    LET want == Decimal(number) \o <<"-">>
        From(rest) ==
            \E k \in 0..Len(rest) :
                /\ \A i \in 1..k : rest[i] = "0"
                /\ StartsWith(Drop(rest, k), want)
                /\ EndsWith(AdrLower(Drop(rest, k + Len(want))), <<".", "m", "d">>)
    IN  \/ From(name)
        \/ StartsWith(AdrLower(name), <<"a", "d", "r", "-">>) /\ From(Drop(name, 4))

\* find_adr_by_number: the files it can return (the first match in the order
\* of glob), or NoPath
find_adr_by_number(names, number) ==
    LET matches == {name \in GlobMd(names) : MatchesNumber(name, number)}
    IN  IF matches = {} THEN {NoPath} ELSE matches

\* get_adr_reference
get_adr_reference(name) ==
    LET digits == IF MatchAdrPrefixed(name) # <<>> THEN MatchAdrPrefixed(name)
                  ELSE MatchNumbered(name)
    IN  IF digits # <<>>
        THEN <<"A", "D", "R", "-">> \o ZeroPad(Decimal(ParseInt(digits)), Len(digits))
        ELSE SubSeq(name, 1, Len(name) - 3)

\* r'(^##\s+Status\s*\n+)([^\n#]+)' at the heading in line i: the line of
\* group 2, the first line after the heading that is not empty, or 0
StatusValueAt(content, i) ==
    LET after == {j \in (i + 1)..Len(content) : content[j].kind # "blank"}
    IN  IF content[i].kind = "status" /\ after # {}
           /\ content[SetMin(after)].kind \in TextKinds
        THEN SetMin(after) ELSE 0

\* the first match of the pattern in the file: the line of group 2, or 0
StatusValue(content) ==
    LET at == {i \in DOMAIN content : StatusValueAt(content, i) # 0}
    IN  IF at = {} THEN 0 ELSE StatusValueAt(content, SetMin(at))

\* update_adr_status without its write_text: count and new_content
update_adr_status(content, new_status, link_ref) ==
    LET j == StatusValue(content)
    IN  IF j = 0 THEN [count |-> 0, new_content |-> content]
        ELSE [count |-> 1,
              new_content |-> [content EXCEPT ![j] = RefLine(new_status, link_ref)]]

\* add_supersedes_reference without its write_text: the pattern ends with the
\* newline of the status value
add_supersedes_reference(content, old_adr_ref, ends_with_newline) ==
    LET j == StatusValue(content)
    IN  IF j = 0 \/ (j = Len(content) /\ ~ends_with_newline)
        THEN [count |-> 0, new_content |-> content]
        ELSE [count |-> 1,
              new_content |-> SubSeq(content, 1, j)
                                \o <<Line("blank"), RefLine("supersedes", old_adr_ref)>>
                                \o SubSeq(content, j + 1, Len(content))]

not_supersede_vars ==
    <<extract_vars, request_vars, detect_vars, cache_vars, slug_vars, adr_vars,
      validate_vars, promote_vars, youtube_vars, scanner_vars>>

\* filepath.read_text(): the lines a file holds, drawn at its first read
read_text(name, drawn) == IF sup_files[name] = Unread THEN drawn ELSE sup_files[name]

Written(name, by) == [file |-> name, by |-> by]

\* supersede_adr up to "Get reference strings": both files are looked up
FindAdrs ==
    /\ sup_pc = "start"
    /\ \E old_adr \in find_adr_by_number(DOMAIN sup_files, sup_args.old),
          new_adr \in find_adr_by_number(DOMAIN sup_files, sup_args.new) :
        /\ sup_old_adr' = old_adr
        /\ sup_new_adr' = new_adr
        /\ IF old_adr = NoPath \/ new_adr = NoPath
           THEN sup_pc' = "done" /\ sup_result' = "False"
           ELSE sup_pc' = "update" /\ UNCHANGED sup_result
    /\ UNCHANGED <<sup_files, sup_before, sup_args, sup_written, not_supersede_vars>>

\* a bug: the run goes on when the status of the old ADR was not updated
UpdateOldStatus_goes_on ==
    /\ sup_pc = "update"
    /\ \E drawn \in AdrContents :
        LET content == read_text(sup_old_adr, drawn)
            updated == update_adr_status(content, "superseded",
                                         get_adr_reference(sup_new_adr))
        IN  /\ sup_before' = IF sup_files[sup_old_adr] = Unread
                             THEN [sup_before EXCEPT ![sup_old_adr] = content]
                             ELSE sup_before
            /\ IF updated.count = 0
               THEN /\ sup_files' = [sup_files EXCEPT ![sup_old_adr] = content]
                    /\ sup_pc' = "reference"
                    /\ UNCHANGED <<sup_result, sup_written>>
               ELSE /\ sup_files' = [sup_files EXCEPT
                                        ![sup_old_adr] = updated.new_content]
                    /\ sup_written' = Append(sup_written,
                          Written(sup_old_adr, "update_adr_status"))
                    /\ sup_pc' = "reference"
                    /\ UNCHANGED sup_result
    /\ UNCHANGED <<sup_args, sup_old_adr, sup_new_adr, not_supersede_vars>>

\* if not update_adr_status(old_adr, "Superseded", new_ref, new_adr.name):
\* return False
UpdateOldStatus ==
    /\ sup_pc = "update"
    /\ \E drawn \in AdrContents :
        LET content == read_text(sup_old_adr, drawn)
            updated == update_adr_status(content, "superseded",
                                         get_adr_reference(sup_new_adr))
        IN  /\ sup_before' = IF sup_files[sup_old_adr] = Unread
                             THEN [sup_before EXCEPT ![sup_old_adr] = content]
                             ELSE sup_before
            /\ IF updated.count = 0
               THEN /\ sup_files' = [sup_files EXCEPT ![sup_old_adr] = content]
                    /\ sup_pc' = "done"
                    /\ sup_result' = "False"
                    /\ UNCHANGED sup_written
               ELSE /\ sup_files' = [sup_files EXCEPT
                                        ![sup_old_adr] = updated.new_content]
                    /\ sup_written' = Append(sup_written,
                          Written(sup_old_adr, "update_adr_status"))
                    /\ sup_pc' = "reference"
                    /\ UNCHANGED sup_result
    /\ UNCHANGED <<sup_args, sup_old_adr, sup_new_adr, not_supersede_vars>>

\* if not add_supersedes_reference(new_adr, old_ref, old_adr.name): a warning;
\* return True
AddReference ==
    /\ sup_pc = "reference"
    /\ \E drawn \in AdrContents, ends_with_newline \in BOOLEAN :
        LET content == read_text(sup_new_adr, drawn)
            added == add_supersedes_reference(content,
                        get_adr_reference(sup_old_adr), ends_with_newline)
        IN  /\ sup_before' = IF sup_files[sup_new_adr] = Unread
                             THEN [sup_before EXCEPT ![sup_new_adr] = content]
                             ELSE sup_before
            /\ sup_files' = [sup_files EXCEPT ![sup_new_adr] = added.new_content]
            /\ sup_written' = IF added.count = 0 THEN sup_written
                              ELSE Append(sup_written,
                                      Written(sup_new_adr, "add_supersedes_reference"))
    /\ sup_pc' = "done"
    /\ sup_result' = "True"
    /\ UNCHANGED <<sup_args, sup_old_adr, sup_new_adr, not_supersede_vars>>

\* main: --old and --new, and a directory that holds the ADR 125 and may
\* hold the ADRs 5 and 12
InitSupersede ==
    /\ sup_args \in [old : {5, 12}, new : {5, 12}]
    /\ \E present \in SUBSET {Name5, Name12} :
        /\ sup_files = [name \in present \cup {Name125} |-> Unread]
        /\ sup_before = sup_files
    /\ sup_old_adr = NoPath
    /\ sup_new_adr = NoPath
    /\ sup_pc = "start"
    /\ sup_result = "none"
    /\ sup_written = <<>>
    /\ ExtractIdle
    /\ RequestIdle
    /\ ToolsIdleBut("supersede")

NextSupersede ==
    \/ FindAdrs
    \/ UpdateOldStatus
    \/ AddReference

SpecSupersede == InitSupersede /\ [][NextSupersede]_vars

(***************************************************************************)
(* Claims about supersede_adr.                                             *)
(***************************************************************************)
\* the file of an ADR number in the directory, by the names the directory
\* can hold
FileOf(number) ==
    IF number = 5 /\ Name5 \in DOMAIN sup_files THEN Name5
    ELSE IF number = 12 /\ Name12 \in DOMAIN sup_files THEN Name12
    ELSE NoPath

\* the file has a "## Status" heading with a status under it
HasStatusSection(content) ==
    \E i, j \in DOMAIN content :
        /\ i < j
        /\ content[i].kind = "status"
        /\ content[j].kind \in TextKinds
        /\ \A k \in (i + 1)..(j - 1) : content[k].kind = "blank"

\* the run fails: a file is not found, or the old ADR has been read and has
\* no status section
FailureCase ==
    \/ FileOf(sup_args.old) = NoPath
    \/ FileOf(sup_args.new) = NoPath
    \/ /\ sup_before[sup_old_adr] # Unread
       /\ ~HasStatusSection(sup_before[sup_old_adr])

NothingModified ==
    /\ sup_written = <<>>
    /\ \A name \in DOMAIN sup_files : sup_files[name] = sup_before[name]

\* the status line update_adr_status writes into the old ADR
SupersededByNew == RefLine("superseded", get_adr_reference(sup_new_adr))

\* C27: supersede_adr fails without side effects: when the old or the new
\* ADR file is not found, or when the old ADR has no status section to
\* update, it returns False and neither ADR file has been modified; the new
\* ADR is modified only after the old ADR's status was rewritten to
\* "Superseded by ...".
C27_FailsWithoutSideEffects ==
    /\ (sup_pc = "done" /\ FailureCase) =>
          (sup_result = "False" /\ NothingModified)
    /\ \A k \in DOMAIN sup_written :
          sup_written[k].by = "add_supersedes_reference" =>
              /\ k = 2
              /\ sup_written[k].file = sup_new_adr
              /\ sup_written[1] = Written(sup_old_adr, "update_adr_status")
              /\ \E j \in DOMAIN sup_files[sup_old_adr] :
                    sup_files[sup_old_adr][j] = SupersededByNew
    /\ \A name \in DOMAIN sup_files :
          sup_files[name] # sup_before[name] => name \in {sup_old_adr, sup_new_adr}

\* the old ADR was found and read, and has no status under its heading
C27_Witness ==
    /\ sup_pc = "done"
    /\ sup_result = "False"
    /\ sup_old_adr = Name5
    /\ sup_new_adr = Name12
    /\ sup_before[Name5] = <<Line("heading"), Line("status"), Line("heading")>>

\* both files were rewritten, the old one first
C27_WitnessSuperseded ==
    /\ sup_pc = "done"
    /\ sup_result = "True"
    /\ sup_old_adr = Name5
    /\ sup_new_adr = Name12
    /\ Len(sup_written) = 2
    /\ sup_before[Name5] = <<Line("status"), Line("blank"), Line("text")>>
    /\ sup_files[Name5][3] = SupersededByNew
    /\ sup_files[Name12] # sup_before[Name12]

\* the new ADR is not found although the old one is
C27_WitnessNewNotFound ==
    /\ sup_pc = "done"
    /\ sup_old_adr = Name5
    /\ sup_new_adr = NoPath
    /\ sup_args.new = 12

====
